---- MODULE Spec2Model ----
(***************************************************************************)
(* Repository onboarding pipeline of sdlc-tools: the GitHub data gatherer  *)
(* (GitHubService, RepositoryOnboardingService.gatherRepositoryData), the  *)
(* AI enrichment step (performClaudeCodeAnalysis), the report synthesis    *)
(* and the server-sent-event driver (POST /api/github/onboarding).         *)
(*                                                                         *)
(* Strings the code inspects character by character (paths, file content)  *)
(* are sequences of one-character strings; strings the code only passes    *)
(* through are TLA+ strings.                                               *)
(***************************************************************************)
EXTENDS Integers, Sequences, FiniteSets, TLC

(* ------------------------------ bounds --------------------------------- *)
\* longest file tree the hosting API returns
MaxTree == 2
\* most calls of one gather that fail together
MaxFaults == 2
\* most messages the AI query yields before it ends
MaxMessages == 2
\* onboarding requests one user sends
MaxRequests == 6

(* --------------------------- string helpers ---------------------------- *)
UpperCase == <<"A","B","C","D","E","F","G","H","I","J","K","L","M","N","O","P","Q","R","S","T","U","V","W","X","Y","Z">>
LowerCase == <<"a","b","c","d","e","f","g","h","i","j","k","l","m","n","o","p","q","r","s","t","u","v","w","x","y","z">>

\* String.prototype.toLowerCase
toLowerCase(s) ==
  [i \in 1..Len(s) |->
     IF \E k \in 1..26 : UpperCase[k] = s[i]
     THEN LowerCase[CHOOSE k \in 1..26 : UpperCase[k] = s[i]]
     ELSE s[i]]

\* String.prototype.includes
includes(s, sub) ==
  \E i \in 0..(Len(s) - Len(sub)) : SubSeq(s, i + 1, i + Len(sub)) = sub

\* String.prototype.substring(0, n)
substring0(s, n) == SubSeq(s, 1, IF Len(s) < n THEN Len(s) ELSE n)

\* filename.split('.').pop(): the part after the last dot, the whole name without one
lastSegment(s) ==
  LET dots == {i \in 1..Len(s) : s[i] = "."}
      last == IF dots = {} THEN 0 ELSE CHOOSE i \in dots : \A j \in dots : j <= i
  IN  SubSeq(s, last + 1, Len(s))

(* ------------------- values returned or thrown ------------------------- *)
Ok(v) == [ok |-> TRUE, val |-> v]
Throw(msg) == [ok |-> FALSE, err |-> msg]

(* ---------------------- the hosting API (octokit) ---------------------- *)
\* the four requests getRepoDetails awaits together
RepoDetailsCalls ==
  {"repos.get", "repos.listLanguages", "repos.listContributors", "repos.listCommits"}
\* the statistics, release and deployment requests, one per wrapper method
StatsCalls ==
  {"repos.getCodeFrequencyStats", "repos.getParticipationStats",
   "repos.getPunchCardStats", "repos.listReleases", "repos.listDeployments"}
\* the four requests getTrafficStats awaits together
TrafficCalls ==
  {"repos.getViews", "repos.getClones", "repos.getTopReferrers", "repos.getTopPaths"}
AnalyticsCalls == RepoDetailsCalls \cup StatsCalls \cup TrafficCalls
TreeCall == "git.getTree"

\* primary languages the metadata may report ("NULL": the API's null)
Languages == {"TypeScript", "Python", "NULL"}
RepoMetas == [language : Languages]

\* why octokit rejects a request: the status of its RequestError (404, 401, 403)
RejectionCauses == {"not-found", "unauthorized", "rate-limited"}

\* sets of requests of one gather that fail together
FaultSets(calls) == {f \in SUBSET calls : Cardinality(f) <= MaxFaults}

\* GitHubService.getRepoDetails: Promise.all over four requests, one catch
getRepoDetails(failed, meta) ==
  IF failed \cap RepoDetailsCalls # {}
  THEN Throw("Failed to fetch repository details")
  ELSE Ok([repo |-> meta])

\* getCodeFrequency, getParticipation, getPunchCardStats, getReleases,
\* getDeployments: each swallows its own failure and returns a default
statOrDefault(failed, call) == IF call \in failed THEN "default" ELSE "data"

\* GitHubService.getTrafficStats: every request has its own .catch
getTrafficStats(failed) ==
  [views     |-> statOrDefault(failed, "repos.getViews"),
   clones    |-> statOrDefault(failed, "repos.getClones"),
   referrers |-> statOrDefault(failed, "repos.getTopReferrers"),
   paths     |-> statOrDefault(failed, "repos.getTopPaths")]

\* GitHubService.getComprehensiveRepoAnalytics
getComprehensiveRepoAnalytics(failed, meta) ==
  LET repoDetails == getRepoDetails(failed, meta)
  IN  IF ~repoDetails.ok
      THEN Throw("Failed to fetch comprehensive analytics")
      ELSE Ok([repo |-> repoDetails.val.repo,
               analytics |->
                 [codeFrequency |-> statOrDefault(failed, "repos.getCodeFrequencyStats"),
                  participation |-> statOrDefault(failed, "repos.getParticipationStats"),
                  punchCard     |-> statOrDefault(failed, "repos.getPunchCardStats"),
                  releases      |-> statOrDefault(failed, "repos.listReleases"),
                  deployments   |-> statOrDefault(failed, "repos.listDeployments"),
                  traffic       |-> getTrafficStats(failed)]])

\* getRepositoryTree with the failure swallowed into an empty tree
getRepositoryTreeSwallow(failed, tree) ==
  IF TreeCall \in failed THEN Ok(<<>>) ELSE Ok(tree)

\* GitHubService.getRepositoryTree
getRepositoryTree(failed, tree) ==
  IF TreeCall \in failed THEN Throw("Failed to fetch repository tree") ELSE Ok(tree)

(* ------------------------- file content -------------------------------- *)
\* what JSON.parse makes of a text: kind "SyntaxError" when it throws, "null" for
\* the literal null, "object" for an object with its scripts and dependencies keys
NotJson == [kind |-> "SyntaxError", hasScripts |-> FALSE, scripts |-> <<>>,
            hasDependencies |-> FALSE, dependencies |-> <<>>]
JsonNull == [kind |-> "null", hasScripts |-> FALSE, scripts |-> <<>>,
             hasDependencies |-> FALSE, dependencies |-> <<>>]
ReactManifest == [kind |-> "object", hasScripts |-> TRUE, scripts |-> <<"dev", "build">>,
                  hasDependencies |-> TRUE, dependencies |-> <<"react", "next">>]

\* file contents the hosting API may serve: the text and what JSON.parse makes of it
EmptyContent == [text |-> <<>>, json |-> NotJson]
FileContents ==
  {EmptyContent,
   [text |-> <<"m","o","d","e","l"," ","A"," ","a","p","i">>, json |-> NotJson],
   [text |-> <<"{","r","}">>, json |-> ReactManifest]}

\* octokit repos.getContent: a file with content, a directory listing, or a failure
ContentResponses ==
  {[status |-> "error", content |-> EmptyContent],
   [status |-> "directory", content |-> EmptyContent]}
  \cup {[status |-> "file", content |-> c] : c \in FileContents}

\* GitHubService.getFileContent: null for a directory and for a failed request
getFileContent(response) ==
  IF response.status = "file"
  THEN [isNull |-> FALSE, content |-> response.content]
  ELSE [isNull |-> TRUE, content |-> EmptyContent]

\* content.substring(0, 2000); a text cut short no longer parses
MaxKeyFileChars == 2000
truncateContent(c) ==
  IF Len(c.text) <= MaxKeyFileChars THEN c
  ELSE [text |-> substring0(c.text, MaxKeyFileChars), json |-> NotJson]

(* ------------------------ file classification -------------------------- *)
keyFileNames ==
  <<<<"R","E","A","D","M","E",".","m","d">>,
    <<"R","E","A","D","M","E",".","r","s","t">>,
    <<"R","E","A","D","M","E",".","t","x","t">>,
    <<"p","a","c","k","a","g","e",".","j","s","o","n">>,
    <<"r","e","q","u","i","r","e","m","e","n","t","s",".","t","x","t">>,
    <<"G","e","m","f","i","l","e">>,
    <<"g","o",".","m","o","d">>,
    <<"C","a","r","g","o",".","t","o","m","l">>,
    <<"d","o","c","k","e","r","f","i","l","e">>,
    <<"D","o","c","k","e","r","f","i","l","e">>,
    <<"d","o","c","k","e","r","-","c","o","m","p","o","s","e",".","y","m","l">>,
    <<"t","s","c","o","n","f","i","g",".","j","s","o","n">>,
    <<"w","e","b","p","a","c","k",".","c","o","n","f","i","g",".","j","s">>,
    <<"v","i","t","e",".","c","o","n","f","i","g",".","j","s">>,
    <<".","e","n","v",".","e","x","a","m","p","l","e">>,
    <<".","e","n","v",".","t","e","m","p","l","a","t","e">>,
    <<"C","O","N","T","R","I","B","U","T","I","N","G",".","m","d">>,
    <<"L","I","C","E","N","S","E">>,
    <<"C","H","A","N","G","E","L","O","G",".","m","d">>,
    <<"p","r","i","s","m","a","/","s","c","h","e","m","a",".","p","r","i","s","m","a">>,
    <<"s","c","h","e","m","a",".","p","r","i","s","m","a">>>>

\* keyFileNames.some(name => item.path.toLowerCase().includes(name.toLowerCase()))
isKeyFile(path) ==
  \E k \in 1..Len(keyFileNames) :
     includes(toLowerCase(path), toLowerCase(keyFileNames[k]))

\* RepositoryOnboardingService.getFileType
getFileType(filename) ==
  LET name == toLowerCase(filename)
  IN  IF includes(name, <<"r","e","a","d","m","e">>) THEN "documentation"
      ELSE IF includes(name, <<"p","a","c","k","a","g","e",".","j","s","o","n">>) \/ includes(name, <<"r","e","q","u","i","r","e","m","e","n","t","s">>)
              \/ includes(name, <<"g","e","m","f","i","l","e">>) THEN "dependencies"
      ELSE IF includes(name, <<"d","o","c","k","e","r">>) THEN "containerization"
      ELSE IF includes(name, <<"c","o","n","f","i","g">>) \/ includes(name, <<"t","s","c","o","n","f","i","g">>)
              \/ includes(name, <<"w","e","b","p","a","c","k">>) THEN "configuration"
      ELSE IF includes(name, <<"t","e","s","t">>) \/ includes(name, <<"s","p","e","c">>) THEN "testing"
      ELSE IF includes(name, <<"c","o","n","t","r","i","b","u","t","i","n","g">>) \/ includes(name, <<"l","i","c","e","n","s","e">>)
              \/ includes(name, <<"c","h","a","n","g","e","l","o","g">>) THEN "project_info"
      ELSE IF includes(name, <<"s","c","h","e","m","a",".","p","r","i","s","m","a">>) THEN "database_schema"
      ELSE "code"

Insight(msg, list, n) == [msg |-> msg, list |-> list, n |-> n]
pushIf(cond, insight) == IF cond THEN <<insight>> ELSE <<>>

WhiteSpace == {" ", "\t", "\n"}
WordChars ==
  {UpperCase[k] : k \in 1..26} \cup {LowerCase[k] : k \in 1..26}
  \cup {"0","1","2","3","4","5","6","7","8","9","_"}
\* content.match(/model\s+(\w+)/g): the number of matches
modelMatches(text) ==
  Cardinality({i \in 1..(Len(text) - 4) :
     /\ SubSeq(text, i, i + 4) = <<"m","o","d","e","l">>
     /\ \E j \in (i + 6)..Len(text) :
          /\ \A k \in (i + 5)..(j - 1) : text[k] \in WhiteSpace
          /\ text[j] \in WordChars})

\* RepositoryOnboardingService.analyzeFileContent
analyzeFileContent(filename, content) ==
  LET lowerContent == toLowerCase(content.text)
      pkg == content.json
      readme ==
        IF includes(toLowerCase(filename), <<"r","e","a","d","m","e">>)
        THEN pushIf(includes(lowerContent, <<"i","n","s","t","a","l","l","a","t","i","o","n">>),
                    Insight("Contains installation instructions", <<>>, 0))
             \o pushIf(includes(lowerContent, <<"g","e","t","t","i","n","g"," ","s","t","a","r","t","e","d">>),
                    Insight("Has getting started guide", <<>>, 0))
             \o pushIf(includes(lowerContent, <<"a","p","i">>),
                    Insight("Includes API documentation", <<>>, 0))
             \o pushIf(includes(lowerContent, <<"e","x","a","m","p","l","e">>),
                    Insight("Provides examples", <<>>, 0))
             \o pushIf(includes(lowerContent, <<"d","e","m","o">>),
                    Insight("Has demo information", <<>>, 0))
        ELSE <<>>
      package ==
        IF filename = <<"p","a","c","k","a","g","e",".","j","s","o","n">>
        THEN IF pkg.kind \in {"SyntaxError", "null"}
             THEN <<Insight("Contains package configuration", <<>>, 0)>>
             ELSE pushIf(pkg.hasScripts, Insight("Available scripts: ", pkg.scripts, 0))
                  \o pushIf(pkg.hasDependencies,
                            Insight(" dependencies", <<>>, Len(pkg.dependencies)))
        ELSE <<>>
      prisma ==
        IF includes(filename, <<"s","c","h","e","m","a",".","p","r","i","s","m","a">>)
        THEN <<Insight("Prisma database schema", <<>>, 0)>>
             \o pushIf(modelMatches(content.text) > 0,
                       Insight("Database models: ", <<>>, modelMatches(content.text)))
        ELSE <<>>
  IN  readme \o package \o prisma

\* RepositoryOnboardingService.detectLanguage
detectLanguage(filename) ==
  LET ext == toLowerCase(lastSegment(filename))
  IN  CASE ext = <<"j","s">> -> "JavaScript"
        [] ext = <<"j","s","x">> -> "React"
        [] ext = <<"t","s">> -> "TypeScript"
        [] ext = <<"t","s","x">> -> "React TypeScript"
        [] ext = <<"p","y">> -> "Python"
        [] ext = <<"j","a","v","a">> -> "Java"
        [] ext = <<"c","p","p">> -> "C++"
        [] ext = <<"c">> -> "C"
        [] ext = <<"c","s">> -> "C#"
        [] ext = <<"p","h","p">> -> "PHP"
        [] ext = <<"r","b">> -> "Ruby"
        [] ext = <<"g","o">> -> "Go"
        [] ext = <<"r","s">> -> "Rust"
        [] ext = <<"s","w","i","f","t">> -> "Swift"
        [] ext = <<"k","t">> -> "Kotlin"
        [] ext = <<"d","a","r","t">> -> "Dart"
        [] ext = <<"v","u","e">> -> "Vue.js"
        [] ext = <<"h","t","m","l">> -> "HTML"
        [] ext = <<"c","s","s">> -> "CSS"
        [] ext = <<"s","c","s","s">> -> "SCSS"
        [] ext = <<"l","e","s","s">> -> "LESS"
        [] ext = <<"j","s","o","n">> -> "JSON"
        [] ext = <<"x","m","l">> -> "XML"
        [] ext = <<"y","a","m","l">> -> "YAML"
        [] ext = <<"y","m","l">> -> "YAML"
        [] ext = <<"m","d">> -> "Markdown"
        [] ext = <<"s","q","l">> -> "SQL"
        [] OTHER -> "Unknown"

\* RepositoryOnboardingService.analyzeCodeStructure
analyzeCodeStructure(tree) ==
  [i \in 1..Len(tree) |->
     [path |-> tree[i].path, type |-> tree[i].type, size |-> tree[i].size,
      language |-> detectLanguage(tree[i].path)]]

(* ------------------------------ key files ------------------------------ *)
\* the entry getKeyFiles pushes for a tree item whose name is on the list;
\* fileData?.content || '' is the empty text for a null fileData
keyFileEntry(path, fileData) ==
  LET content == IF fileData.isNull THEN EmptyContent ELSE fileData.content
  IN  [path     |-> path,
       content  |-> truncateContent(content),
       type     |-> getFileType(path),
       insights |-> analyzeFileContent(path, content)]

\* a getKeyFiles loop that requests the content of every item, listed or not
nextKeyFileEvery(tree, i) ==
  IF i <= Len(tree) THEN i ELSE Len(tree) + 1

\* index of the first key file of the tree at or after i, Len(tree) + 1 if none:
\* the items the for loop of getKeyFiles passes over without a request
nextKeyFile(tree, i) ==
  LET later == {k \in i..Len(tree) : isKeyFile(tree[k].path)}
  IN  IF later = {} THEN Len(tree) + 1
      ELSE CHOOSE k \in later : \A m \in later : k <= m

(* ------------------------- AI service messages ------------------------- *)
\* a text block of an AI message, by what extractClaudeInsights reads of it: the
\* searched words its lower-cased text contains, its bullet lines, its length
Text(id, words, bullets, len) == [id |-> id, words |-> words, bullets |-> bullets, len |-> len]
NoText == Text("", {}, <<>>, 0)

\* messages the AI query may yield
AIMessages ==
  {[type |-> "system", text |-> NoText],
   [type |-> "assistant",
    text |-> Text("architecture-notes", {"architecture", "database", "prisma"}, <<>>, 120)],
   [type |-> "assistant",
    text |-> Text("feature-list", {"feature", "important", "setup"},
                  <<"auth", "billing">>, 40)]}

\* a narrative bucket: the texts appended to it (each followed by a newline)
Narrative(ids, words, len) == [ids |-> ids, words |-> words, len |-> len]
EmptyNarrative == Narrative(<<>>, {}, 0)
DefaultNarrative(string, len) == Narrative(<<string>>, {}, len)
append(narrative, text) ==
  Narrative(Append(narrative.ids, text.id), narrative.words \cup text.words,
            narrative.len + text.len + 1)

\* the buckets of extractClaudeInsights before its defaults are applied
RECURSIVE scanMessages(_, _)
scanMessages(messages, acc) ==
  IF messages = <<>> THEN acc
  ELSE
    LET msg == Head(messages)
        text == msg.text
        has(ws) == text.words \cap ws # {}
        next ==
          IF msg.type = "assistant" /\ text.len > 0
          THEN [codeAnalysis |-> append(acc.codeAnalysis, text),
                dataModel |->
                  IF has({"data model", "database", "schema"})
                  THEN append(acc.dataModel, text) ELSE acc.dataModel,
                architecture |->
                  IF has({"architecture", "pattern"})
                  THEN append(acc.architecture, text) ELSE acc.architecture,
                features |->
                  IF has({"feature", "capability"})
                  THEN acc.features \o text.bullets ELSE acc.features,
                setupInstructions |->
                  IF has({"setup", "install"})
                  THEN append(acc.setupInstructions, text) ELSE acc.setupInstructions,
                keyInsights |->
                  IF has({"insight", "important"})
                  THEN acc.keyInsights \o text.bullets ELSE acc.keyInsights]
          ELSE acc
    IN  scanMessages(Tail(messages), next)

\* RepositoryOnboardingService.extractClaudeInsights
extractClaudeInsights(messages) ==
  LET s == scanMessages(messages,
             [codeAnalysis |-> EmptyNarrative, dataModel |-> EmptyNarrative,
              architecture |-> EmptyNarrative, features |-> <<>>,
              setupInstructions |-> EmptyNarrative, keyInsights |-> <<>>])
      orElse(n, string, len) == IF n.len > 0 THEN n ELSE DefaultNarrative(string, len)
  IN  [codeAnalysis |-> orElse(s.codeAnalysis, "Code analysis completed", 23),
       dataModel |-> orElse(s.dataModel, "No specific data model detected", 31),
       architecture |-> orElse(s.architecture, "Architecture analysis completed", 31),
       features |-> IF Len(s.features) > 0 THEN s.features
                    ELSE <<"Application features detected">>,
       setupInstructions |->
         orElse(s.setupInstructions, "Standard development setup required", 35),
       keyInsights |-> IF Len(s.keyInsights) > 0 THEN s.keyInsights
                       ELSE <<"Comprehensive analysis completed">>]

\* the object the catch of performClaudeCodeAnalysis returns
claudeFallback ==
  [codeAnalysis |->
     DefaultNarrative("Claude analysis unavailable - using GitHub API data only", 56),
   dataModel |-> DefaultNarrative("Data model analysis unavailable", 31),
   architecture |-> DefaultNarrative("Architecture analysis unavailable", 33),
   features |-> <<>>,
   setupInstructions |-> DefaultNarrative("Standard setup required", 23),
   keyInsights |-> <<"Analysis limited - Claude SDK unavailable">>]

(* --------------------------- recommendations --------------------------- *)
\* a recommendation line: fixed text, with the interpolated value if any
Line(text, value) == [text |-> text, value |-> value]
slice(s, n) == SubSeq(s, 1, IF Len(s) < n THEN Len(s) ELSE n)
jsOrTs(language) == language \in {"JavaScript", "TypeScript"}

\* RepositoryOnboardingService.detectFramework ("" for null)
detectFramework(keyFiles, language) ==
  LET pkgs == {k \in 1..Len(keyFiles) : keyFiles[k].path = <<"p","a","c","k","a","g","e",".","j","s","o","n">>}
      reqs == {k \in 1..Len(keyFiles) : includes(keyFiles[k].path, <<"r","e","q","u","i","r","e","m","e","n","t","s">>)}
      first(S) == CHOOSE k \in S : \A m \in S : k <= m
      pkg == keyFiles[first(pkgs)].content.json
      deps == {pkg.dependencies[k] : k \in 1..Len(pkg.dependencies)}
      req == toLowerCase(keyFiles[first(reqs)].content.text)
      fromPackage ==
        IF pkgs # {} /\ Len(keyFiles[first(pkgs)].content.text) > 0
           /\ pkg.kind = "object" /\ pkg.hasDependencies
        THEN IF "react" \in deps THEN "React"
             ELSE IF "vue" \in deps THEN "Vue.js"
             ELSE IF "angular" \in deps THEN "Angular"
             ELSE IF "next" \in deps THEN "Next.js"
             ELSE IF "express" \in deps THEN "Express.js"
             ELSE IF "fastify" \in deps THEN "Fastify"
             ELSE ""
        ELSE ""
      fromRequirements ==
        IF reqs # {} /\ Len(keyFiles[first(reqs)].content.text) > 0
        THEN IF includes(req, <<"d","j","a","n","g","o">>) THEN "Django"
             ELSE IF includes(req, <<"f","l","a","s","k">>) THEN "Flask"
             ELSE IF includes(req, <<"f","a","s","t","a","p","i">>) THEN "FastAPI"
             ELSE ""
        ELSE ""
  IN  IF fromPackage # "" THEN fromPackage ELSE fromRequirements

hasPrisma(keyFiles) ==
  \E k \in 1..Len(keyFiles) : includes(keyFiles[k].path, <<"s","c","h","e","m","a",".","p","r","i","s","m","a">>)

\* items.forEach(item => out.push(prefix + item)), without the slice
eachLineUnsliced(prefix, items, n) == [k \in 1..Len(items) |-> Line(prefix, items[k])]

\* items.slice(0, n).forEach(item => out.push(prefix + item))
eachLine(prefix, items, n) == [k \in 1..Len(slice(items, n)) |-> Line(prefix, items[k])]

MaxInsightLines == 6
MaxFeatureLines == 4

\* RepositoryOnboardingService.generateEnhancedRecommendations
generateEnhancedRecommendations(repoData, claudeAnalysis) ==
  LET mainLanguage == repoData.repository.repo.language
      framework == detectFramework(repoData.keyFiles, mainLanguage)
      ai ==
        IF Len(claudeAnalysis.keyInsights) > 0
        THEN <<Line("AI-Powered Recommendations:", "")>>
             \o eachLine("* ", claudeAnalysis.keyInsights, MaxInsightLines)
             \o <<Line("", "")>>
        ELSE <<>>
      setup ==
        <<Line("Setup & Development:", ""),
          Line("Clone the repository and review all README files", "")>>
        \o (IF jsOrTs(mainLanguage)
            THEN <<Line("Run npm install to install all dependencies", ""),
                   Line("Check package.json for available development scripts", "")>>
                 \o (IF framework # ""
                     THEN <<Line("Familiarize yourself with framework patterns: ", framework)>>
                     ELSE <<>>)
            ELSE <<>>)
      database ==
        IF hasPrisma(repoData.keyFiles) \/ "prisma" \in claudeAnalysis.dataModel.words
        THEN <<Line("", ""),
               Line("Database & Data Model:", ""),
               Line("Review the Prisma schema for data model understanding", ""),
               Line("Run npx prisma generate to generate the client", ""),
               Line("Study entity relationships and database constraints", ""),
               Line("Use npx prisma studio to explore the database visually", "")>>
        ELSE <<>>
      features ==
        IF Len(claudeAnalysis.features) > 0
        THEN <<Line("", ""), Line("Feature Exploration:", "")>>
             \o eachLine("Explore the implementation of ", claudeAnalysis.features,
                         MaxFeatureLines)
        ELSE <<>>
      quality ==
        <<Line("", ""),
          Line("Code Quality & Best Practices:", ""),
          Line("Review the codebase structure and naming conventions", ""),
          Line("Check for existing tests and testing patterns", ""),
          Line("Look for linting and formatting configurations", "")>>
  IN  ai \o setup \o database \o features \o quality

\* generateBasicRecommendations with the first push moved into the language branch
generateBasicRecommendationsJsOnly(repoData) ==
  IF jsOrTs(repoData.repository.repo.language)
  THEN <<Line("Clone the repository and review the README.md file", ""),
         Line("Run npm install to install dependencies", ""),
         Line("Check package.json for available scripts", "")>>
  ELSE <<>>

\* RepositoryOnboardingService.generateBasicRecommendations
generateBasicRecommendations(repoData) ==
  <<Line("Clone the repository and review the README.md file", "")>>
  \o (IF jsOrTs(repoData.repository.repo.language)
      THEN <<Line("Run npm install to install dependencies", ""),
             Line("Check package.json for available scripts", "")>>
      ELSE <<>>)

(* ------------------------------ report --------------------------------- *)
\* performClaudeCodeAnalysis without its catch: a failure of the query propagates
performClaudeCodeAnalysisNoCatch(outcome, messages) ==
  IF outcome = "done" THEN Ok(extractClaudeInsights(messages))
  ELSE Throw("Claude Code process exited")

\* RepositoryOnboardingService.performClaudeCodeAnalysis: the query ended
\* ("done") or raised ("throw") after yielding `messages`; the catch makes a
\* fallback of every failure
performClaudeCodeAnalysis(outcome, messages) ==
  IF outcome = "done" THEN Ok(extractClaudeInsights(messages)) ELSE Ok(claudeFallback)

NoResult == [success |-> FALSE, error |-> "", recommendations |-> <<>>, analysisType |-> ""]

\* the object generateComprehensiveOnboarding returns after the AI step
comprehensiveResult(repoData, claudeAnalysis) ==
  [success |-> TRUE, error |-> "",
   recommendations |-> generateEnhancedRecommendations(repoData, claudeAnalysis),
   analysisType |-> "claude_enhanced_analysis"]

\* the object generateBasicOnboarding returns when its own gather succeeded
basicResult(repoData) ==
  [success |-> TRUE, error |-> "",
   recommendations |-> generateBasicRecommendations(repoData),
   analysisType |-> "basic_fallback"]

\* the object generateBasicOnboarding returns when its own gather failed too
failedResult(error) ==
  [success |-> FALSE, error |-> error,
   recommendations |-> <<Line("Please try again later", "")>>,
   analysisType |-> ""]

(* --------------------------- onboarding guide -------------------------- *)
\* one pushed section of the guide: fixed text with its interpolated value, or an
\* excerpt of a narrative field of the AI analysis
Section(text, value) == [text |-> text, value |-> value, narrative |-> EmptyNarrative]
Excerpt(narrative, n) ==
  [text |-> "", value |-> "",
   narrative |-> Narrative(narrative.ids, narrative.words,
                           IF narrative.len < n THEN narrative.len ELSE n)]

MinNarrativeChars == 50
MaxArchitectureChars == 1200
MaxSetupChars == 1800
MaxGuideFeatures == 6
MaxGuideInsights == 10

\* the else branch of the setup section: commands chosen by the main language
setupTemplate(repoData, mainLanguage, owner, repo) ==
  <<Section("bash fence", ""),
    Section("# Clone the repository", ""),
    Section("git clone https://github.com/", owner \o "/" \o repo \o ".git"),
    Section("cd ", repo),
    Section("", "")>>
  \o (IF jsOrTs(mainLanguage)
      THEN <<Section("# Install dependencies", ""),
             Section("npm install", ""),
             Section("", "")>>
           \o (IF hasPrisma(repoData.keyFiles)
               THEN <<Section("# Setup database (Prisma detected)", ""),
                      Section("npx prisma generate", ""),
                      Section("npx prisma db push", ""),
                      Section("", "")>>
               ELSE <<>>)
           \o <<Section("# Start development server", ""),
                Section("npm run dev", "")>>
      ELSE IF mainLanguage = "Python"
      THEN <<Section("# Create virtual environment", ""),
             Section("python -m venv venv", ""),
             Section("source venv/bin/activate", ""),
             Section("", ""),
             Section("# Install dependencies", ""),
             Section("pip install -r requirements.txt", "")>>
      ELSE <<>>)
  \o <<Section("fence", "")>>

\* a setup section that takes the AI setup text whenever there is one
setupSectionAnyLength(repoData, claudeAnalysis, mainLanguage, owner, repo) ==
  <<Section("## Developer Setup Guide", "")>>
  \o (IF claudeAnalysis.setupInstructions.len > 0
      THEN <<Excerpt(claudeAnalysis.setupInstructions, MaxSetupChars)>>
      ELSE setupTemplate(repoData, mainLanguage, owner, repo))

\* the setup section of the guide: the AI setup text if it is longer than
\* MinNarrativeChars, the template otherwise
setupSection(repoData, claudeAnalysis, mainLanguage, owner, repo) ==
  <<Section("## Developer Setup Guide", "")>>
  \o (IF claudeAnalysis.setupInstructions.len > MinNarrativeChars
      THEN <<Excerpt(claudeAnalysis.setupInstructions, MaxSetupChars)>>
      ELSE setupTemplate(repoData, mainLanguage, owner, repo))

\* RepositoryOnboardingService.generateEnhancedOnboardingGuide: the sections it
\* joins with newlines
generateEnhancedOnboardingGuide(repoData, claudeAnalysis, owner, repo) ==
  LET meta == repoData.repository.repo
      mainLanguage == IF meta.language = "NULL" THEN "Unknown" ELSE meta.language
      sectionLines(prefix, items, n) ==
        [k \in 1..Len(slice(items, n)) |-> Section(prefix, items[k])]
      overview ==
        <<Section("# AI-Enhanced Developer Onboarding Guide", ""),
          Section("*Comprehensive Analysis for ", owner \o "/" \o repo),
          Section("## Project Overview", "")>>
        \o (IF meta.description # ""
            THEN <<Section("**Description:** ", meta.description)>> ELSE <<>>)
        \o <<Section("**Primary Language:** ", mainLanguage)>>
        \o (IF Len(claudeAnalysis.features) > 0
            THEN <<Section("**Key Features:**", "")>>
                 \o sectionLines("- ", claudeAnalysis.features, MaxGuideFeatures)
            ELSE <<>>)
        \o <<Section("", "")>>
      architecture ==
        IF claudeAnalysis.architecture.len > MinNarrativeChars
        THEN <<Section("## Architecture & Design Patterns", ""),
               Excerpt(claudeAnalysis.architecture, MaxArchitectureChars),
               Section("", "")>>
        ELSE <<>>
      dataModel ==
        IF claudeAnalysis.dataModel.len > MinNarrativeChars
        THEN <<Section("## Data Model & Database Schema", ""),
               Excerpt(claudeAnalysis.dataModel, MaxArchitectureChars),
               Section("", "")>>
        ELSE <<>>
      setup == setupSection(repoData, claudeAnalysis, mainLanguage, owner, repo)
      keyInsights ==
        IF Len(claudeAnalysis.keyInsights) > 0
        THEN <<Section("## Key Developer Insights", "")>>
             \o sectionLines("- ", claudeAnalysis.keyInsights, MaxGuideInsights)
        ELSE <<>>
  IN  overview \o architecture \o dataModel \o setup \o keyInsights

\* the values of the report generators' arguments before they are called
NoRepoData == [repository |-> [repo |-> [language |-> "NULL", description |-> ""]],
               keyFiles |-> <<>>]
NoAnalysis ==
  [codeAnalysis |-> EmptyNarrative, dataModel |-> EmptyNarrative,
   architecture |-> EmptyNarrative, features |-> <<>>,
   setupInstructions |-> EmptyNarrative, keyInsights |-> <<>>]

(* ------------------------------ events --------------------------------- *)
NoData == [type |-> "", recommendations |-> <<>>]
ProgressEvent(message) ==
  [type |-> "progress", message |-> message, data |-> NoData, progress |-> 0]
StepEvent(step) ==
  [type |-> "message", message |-> step.message,
   data |-> [type |-> "progress", recommendations |-> <<>>], progress |-> step.progress]
CompleteEvent(res) ==
  [type |-> "complete", message |-> "",
   data |-> [type |-> "", recommendations |-> res.recommendations], progress |-> 0]
ErrorEvent(message) ==
  [type |-> "error", message |-> IF message = "" THEN "Analysis failed" ELSE message,
   data |-> NoData, progress |-> 0]

\* progressSteps with the third checkpoint announced at the percent of the second
progressStepsRepeated ==
  <<[message |-> "Analyzing repository structure...", progress |-> 25],
    [message |-> "Processing key files...", progress |-> 50],
    [message |-> "Generating technical analysis...", progress |-> 50],
    [message |-> "Creating recommendations...", progress |-> 90]>>

progressSteps ==
  <<[message |-> "Analyzing repository structure...", progress |-> 25],
    [message |-> "Processing key files...", progress |-> 50],
    [message |-> "Generating technical analysis...", progress |-> 75],
    [message |-> "Creating recommendations...", progress |-> 90]>>

(* ------------------------------ inputs --------------------------------- *)
\* requests: whether the session carries an access token, whether the body is
\* JSON, and the owner and repo fields of the body ("MISSING": no such field)
Requests ==
  [session : BOOLEAN, bodyParses : BOOLEAN,
   owner : {"MISSING", "", "acme"}, repo : {"MISSING", "", "app"}]

\* paths a tree may hold, in the order the hosting API lists them (by path)
TreePaths ==
  <<<<"R","E","A","D","M","E",".","m","d">>,
    <<"a","p","p",".","t","s">>,
    <<"p","a","c","k","a","g","e",".","j","s","o","n">>,
    <<"s","c","h","e","m","a",".","p","r","i","s","m","a">>>>
\* file trees: up to MaxTree of these paths, in that order
Trees ==
  {[i \in 1..Cardinality(S) |->
      [path |-> TreePaths[CHOOSE k \in S : Cardinality({m \in S : m < k}) = i - 1],
       type |-> "blob", size |-> 1]]
   : S \in {T \in SUBSET (1..Len(TreePaths)) : Cardinality(T) <= MaxTree}}

NoMeta == [language |-> "NULL"]
NoRepository == [repo |-> NoMeta]
NoResponse == [status |-> "none", content |-> EmptyContent]
\* what the hosting API delivered for the requests last awaited
Settled(failed, meta, tree, response) ==
  [failed |-> failed, meta |-> meta, tree |-> tree, response |-> response]
NoSettled == Settled({}, NoMeta, <<>>, NoResponse)

(* ----------------------- DeepRepositoryAnalyzer ------------------------ *)
\* keyFileNames of analyzeKeyFiles, in the order its loop requests them
analyzerKeyFileNames ==
  <<<<"R","E","A","D","M","E",".","m","d">>,
    <<"R","E","A","D","M","E",".","r","s","t">>,
    <<"R","E","A","D","M","E",".","t","x","t">>,
    <<"p","a","c","k","a","g","e",".","j","s","o","n">>,
    <<"r","e","q","u","i","r","e","m","e","n","t","s",".","t","x","t">>,
    <<"G","e","m","f","i","l","e">>,
    <<"g","o",".","m","o","d">>,
    <<"C","a","r","g","o",".","t","o","m","l">>,
    <<"d","o","c","k","e","r","f","i","l","e">>,
    <<"D","o","c","k","e","r","f","i","l","e">>,
    <<"d","o","c","k","e","r","-","c","o","m","p","o","s","e",".","y","m","l">>,
    <<".","g","i","t","h","u","b","/","w","o","r","k","f","l","o","w","s","/","c","i",".","y","m","l">>,
    <<".","g","i","t","h","u","b","/","w","o","r","k","f","l","o","w","s","/","m","a","i","n",".","y","m","l">>,
    <<"t","s","c","o","n","f","i","g",".","j","s","o","n">>,
    <<"w","e","b","p","a","c","k",".","c","o","n","f","i","g",".","j","s">>,
    <<"v","i","t","e",".","c","o","n","f","i","g",".","j","s">>,
    <<"j","e","s","t",".","c","o","n","f","i","g",".","j","s">>,
    <<"c","y","p","r","e","s","s",".","j","s","o","n">>,
    <<"p","l","a","y","w","r","i","g","h","t",".","c","o","n","f","i","g",".","j","s">>,
    <<".","e","n","v",".","e","x","a","m","p","l","e">>,
    <<".","e","n","v",".","t","e","m","p","l","a","t","e">>,
    <<"C","O","N","T","R","I","B","U","T","I","N","G",".","m","d">>,
    <<"L","I","C","E","N","S","E">>,
    <<"C","H","A","N","G","E","L","O","G",".","m","d">>>>

\* what JSON.parse makes of the manifests below: the keys of scripts with their
\* commands, the keys of dependencies and of devDependencies (every version a
\* non-empty string), and engines
ReactPackage ==
  [kind |-> "object", hasScripts |-> TRUE, scripts |-> <<"dev", "build">>,
   commands |-> <<<<"n","e","x","t"," ","d","e","v">>, <<"n","e","x","t"," ","b","u","i","l","d">>>>,
   hasDependencies |-> TRUE, dependencies |-> <<"react", "next">>,
   hasDevDependencies |-> TRUE, devDependencies |-> <<"typescript", "jest">>,
   hasEngines |-> FALSE, node |-> ""]
ExpressPackage ==
  [kind |-> "object", hasScripts |-> TRUE, scripts |-> <<"start">>,
   commands |-> <<<<"n","o","d","e"," ","s","e","r","v","e","r",".","j","s">>>>,
   hasDependencies |-> TRUE, dependencies |-> <<"express">>,
   hasDevDependencies |-> FALSE, devDependencies |-> <<>>,
   hasEngines |-> FALSE, node |-> ""]

\* white space a manifest carries before its closing brace
Padding(n) == [i \in 1..n |-> " "]
ReactText ==
  <<"{","\"","s","c","r","i","p","t","s","\"",":","{","\"","d","e","v","\"",":","\"","n","e","x","t"," ","d","e","v","\"",",","\"","b","u","i","l","d","\"",":","\"","n","e","x","t"," ","b","u","i","l","d","\"","}",",","\"","d","e","p","e","n","d","e","n","c","i","e","s","\"",":","{","\"","r","e","a","c","t","\"",":","\"","1","8","\"",",","\"","n","e","x","t","\"",":","\"","1","4","\"","}",",","\"","d","e","v","D","e","p","e","n","d","e","n","c","i","e","s","\"",":","{","\"","t","y","p","e","s","c","r","i","p","t","\"",":","\"","5","\"",",","\"","j","e","s","t","\"",":","\"","2","9","\"","}","}">>
ExpressText ==
  <<"{","\"","s","c","r","i","p","t","s","\"",":","{","\"","s","t","a","r","t","\"",":","\"","n","o","d","e"," ","s","e","r","v","e","r",".","j","s","\"","}",",","\"","d","e","p","e","n","d","e","n","c","i","e","s","\"",":","{","\"","e","x","p","r","e","s","s","\"",":","\"","4","\"","}","}">>

\* content.substring(0, 1000) of analyzeFile; a manifest cut before its closing
\* brace no longer parses
MaxStoredChars == 1000
storeContent(c) ==
  IF Len(c.text) <= MaxStoredChars THEN c
  ELSE [text |-> substring0(c.text, MaxStoredChars), json |-> NotJson]

has(list, name) == \E i \in 1..Len(list) : list[i] = name
\* pkg.scripts[name]: the command, the empty string standing for undefined
command(pkg, name) ==
  IF has(pkg.scripts, name)
  THEN pkg.commands[CHOOSE i \in 1..Len(pkg.scripts) : pkg.scripts[i] = name]
  ELSE <<>>

\* String.prototype.split('\n')
RECURSIVE splitLines(_)
splitLines(text) ==
  LET nl == {i \in 1..Len(text) : text[i] = "\n"}
  IN  IF nl = {} THEN <<text>>
      ELSE LET i == CHOOSE k \in nl : \A m \in nl : k <= m
           IN  <<SubSeq(text, 1, i - 1)>> \o splitLines(SubSeq(text, i + 1, Len(text)))

\* positions at which sub starts in s
occurrences(s, sub) == {i \in 1..(Len(s) - Len(sub) + 1) : SubSeq(s, i, i + Len(sub) - 1) = sub}
first(S) == CHOOSE k \in S : \A m \in S : k <= m
\* the backquote, which a TLA+ string cannot hold, and the fence of a code block
Backquote == "BQ"
Fence == <<Backquote, Backquote, Backquote>>
SetupCommands == {<<"n","p","m"," ","i","n","s","t","a","l","l">>, <<"p","i","p"," ","i","n","s","t","a","l","l">>, <<"y","a","r","n">>, <<"g","o"," ","g","e","t">>, <<"c","a","r","g","o"," ","b","u","i","l","d">>}
\* the matches of /```[\s\S]*?(npm install|pip install|yarn|go get|cargo build)[\s\S]*?```/gi
\* in text from position from on: an opening fence, the nearest command after it,
\* the nearest fence after the command; the search resumes behind the match
RECURSIVE setupCommandBlocks(_, _)
setupCommandBlocks(text, from) ==
  LET fences == occurrences(text, Fence)
      hits(i) == {k \in (i + 3)..Len(text) : \E c \in SetupCommands : k \in occurrences(text, c)}
      endOf(k) == k + Len(CHOOSE c \in SetupCommands : k \in occurrences(text, c))
      closes(i) == IF hits(i) = {} THEN {}
                   ELSE {f \in fences : f >= endOf(first(hits(i)))}
      opens == {i \in fences : i >= from /\ closes(i) # {}}
  IN  IF opens = {} THEN 0
      ELSE 1 + setupCommandBlocks(text, first(closes(first(opens))) + 3)

\* DeepRepositoryAnalyzer.analyzeReadme
analyzeReadme(content) ==
  LET lines == toLowerCase(content.text)
      blocks == setupCommandBlocks(lines, 1)
  IN  pushIf(includes(lines, <<"i","n","s","t","a","l","l","a","t","i","o","n">>) \/ includes(lines, <<"i","n","s","t","a","l","l">>),
             Insight("Contains installation instructions", <<>>, 0))
      \o pushIf(includes(lines, <<"g","e","t","t","i","n","g"," ","s","t","a","r","t","e","d">>) \/ includes(lines, <<"q","u","i","c","k"," ","s","t","a","r","t">>),
             Insight("Includes getting started guide", <<>>, 0))
      \o pushIf(includes(lines, <<"a","p","i">>) \/ includes(lines, <<"d","o","c","u","m","e","n","t","a","t","i","o","n">>),
             Insight("Has API or documentation references", <<>>, 0))
      \o pushIf(includes(lines, <<"c","o","n","t","r","i","b","u","t","i","n","g">>) \/ includes(lines, <<"c","o","n","t","r","i","b","u","t","e">>),
             Insight("Includes contribution guidelines", <<>>, 0))
      \o pushIf(includes(lines, <<"l","i","c","e","n","s","e">>),
             Insight("Contains license information", <<>>, 0))
      \o pushIf(includes(lines, <<"d","e","m","o">>) \/ includes(lines, <<"e","x","a","m","p","l","e">>),
             Insight("Provides examples or demos", <<>>, 0))
      \o pushIf(blocks > 0, Insight("Found  setup command blocks", <<>>, blocks))

\* analyzePackageJson with a catch that pushes nothing
analyzePackageJsonSilent(content) ==
  LET pkg == content.json
  IN  IF pkg.kind \in {"SyntaxError", "null"} THEN <<>>
      ELSE pushIf(pkg.hasScripts, Insight("Available scripts: ", pkg.scripts, 0))

\* DeepRepositoryAnalyzer.analyzePackageJson: JSON.parse throws on a malformed text,
\* pkg.scripts throws on null
analyzePackageJson(content) ==
  LET pkg == content.json
  IN  IF pkg.kind \in {"SyntaxError", "null"}
      THEN <<Insight("Invalid package.json format", <<>>, 0)>>
      ELSE (IF pkg.hasScripts
            THEN <<Insight("Available scripts: ", pkg.scripts, 0)>>
                 \o pushIf(command(pkg, "dev") # <<>> \/ command(pkg, "start") # <<>>,
                           Insight("Has development server scripts", <<>>, 0))
                 \o pushIf(command(pkg, "build") # <<>>, Insight("Has build script", <<>>, 0))
                 \o pushIf(command(pkg, "test") # <<>>, Insight("Has test script", <<>>, 0))
            ELSE <<>>)
           \o (IF pkg.hasDependencies
               THEN <<Insight(" production dependencies", <<>>, Len(pkg.dependencies))>>
                    \o pushIf(has(pkg.dependencies, "react"), Insight("React application", <<>>, 0))
                    \o pushIf(has(pkg.dependencies, "vue"), Insight("Vue.js application", <<>>, 0))
                    \o pushIf(has(pkg.dependencies, "angular"), Insight("Angular application", <<>>, 0))
                    \o pushIf(has(pkg.dependencies, "next"), Insight("Next.js application", <<>>, 0))
                    \o pushIf(has(pkg.dependencies, "express"), Insight("Express.js server", <<>>, 0))
                    \o pushIf(has(pkg.dependencies, "fastify"), Insight("Fastify server", <<>>, 0))
               ELSE <<>>)
           \o (IF pkg.hasDevDependencies
               THEN <<Insight(" development dependencies", <<>>, Len(pkg.devDependencies))>>
                    \o pushIf(has(pkg.devDependencies, "typescript"), Insight("TypeScript project", <<>>, 0))
                    \o pushIf(has(pkg.devDependencies, "jest"), Insight("Uses Jest for testing", <<>>, 0))
                    \o pushIf(has(pkg.devDependencies, "cypress"), Insight("Uses Cypress for E2E testing", <<>>, 0))
                    \o pushIf(has(pkg.devDependencies, "webpack"), Insight("Uses Webpack for bundling", <<>>, 0))
                    \o pushIf(has(pkg.devDependencies, "vite"), Insight("Uses Vite for bundling", <<>>, 0))
               ELSE <<>>)
           \o pushIf(pkg.hasEngines,
                     Insight("Node.js version requirement: ",
                             <<IF pkg.node = "" THEN "not specified" ELSE pkg.node>>, 0))

\* line.trim() && !line.startsWith('#')
isRequirement(line) ==
  /\ \E i \in 1..Len(line) : line[i] \notin WhiteSpace
  /\ ~(Len(line) > 0 /\ line[1] = "#")
isPythonFramework(line) ==
  \/ includes(line, <<"d","j","a","n","g","o">>) \/ includes(line, <<"f","l","a","s","k">>) \/ includes(line, <<"f","a","s","t","a","p","i">>)
  \/ includes(line, <<"t","o","r","n","a","d","o">>) \/ includes(line, <<"p","y","r","a","m","i","d">>)

\* DeepRepositoryAnalyzer.analyzePythonRequirements
analyzePythonRequirements(content) ==
  LET lines == SelectSeq(splitLines(content.text), isRequirement)
      frameworks == SelectSeq(lines, isPythonFramework)
  IN  <<Insight(" Python dependencies", <<>>, Len(lines))>>
      \o pushIf(Len(frameworks) > 0, Insight("Python web frameworks: ", frameworks, 0))

\* DeepRepositoryAnalyzer.analyzeDockerfile
analyzeDockerfile(content) ==
  LET lines == toLowerCase(content.text)
  IN  pushIf(includes(lines, <<"f","r","o","m"," ","n","o","d","e">>), Insight("Node.js Docker container", <<>>, 0))
      \o pushIf(includes(lines, <<"f","r","o","m"," ","p","y","t","h","o","n">>), Insight("Python Docker container", <<>>, 0))
      \o pushIf(includes(lines, <<"f","r","o","m"," ","n","g","i","n","x">>), Insight("Nginx web server", <<>>, 0))
      \o pushIf(includes(lines, <<"e","x","p","o","s","e">>), Insight("Exposes network ports", <<>>, 0))
      \o pushIf(includes(lines, <<"v","o","l","u","m","e">>), Insight("Uses Docker volumes", <<>>, 0))
      \o pushIf(includes(lines, <<"m","u","l","t","i","-","s","t","a","g","e">>), Insight("Multi-stage Docker build", <<>>, 0))

\* DeepRepositoryAnalyzer.analyzeTestConfig
analyzeTestConfig(content) ==
  LET lines == toLowerCase(content.text)
  IN  pushIf(includes(lines, <<"j","e","s","t">>), Insight("Jest testing framework", <<>>, 0))
      \o pushIf(includes(lines, <<"m","o","c","h","a">>), Insight("Mocha testing framework", <<>>, 0))
      \o pushIf(includes(lines, <<"c","y","p","r","e","s","s">>), Insight("Cypress E2E testing", <<>>, 0))
      \o pushIf(includes(lines, <<"p","l","a","y","w","r","i","g","h","t">>), Insight("Playwright testing", <<>>, 0))
      \o pushIf(includes(lines, <<"c","o","v","e","r","a","g","e">>), Insight("Code coverage configured", <<>>, 0))

\* DeepRepositoryAnalyzer.analyzeConfigFile
analyzeConfigFile(filename, content) ==
  pushIf(includes(filename, <<"t","y","p","e","s","c","r","i","p","t">>) \/ includes(filename, <<"t","s","c","o","n","f","i","g">>),
         Insight("TypeScript configuration", <<>>, 0))
  \o pushIf(includes(filename, <<"w","e","b","p","a","c","k">>), Insight("Webpack bundler configuration", <<>>, 0))
  \o pushIf(includes(filename, <<"v","i","t","e">>), Insight("Vite build tool configuration", <<>>, 0))

\* DeepRepositoryAnalyzer.analyzeFile: the first branch whose test holds sets the
\* type and the insights; the tests on the file name other than the first are
\* case-sensitive
analyzeFile(filename, content) ==
  LET branch ==
        IF includes(toLowerCase(filename), <<"r","e","a","d","m","e">>) THEN "readme"
        ELSE IF filename = <<"p","a","c","k","a","g","e",".","j","s","o","n">> THEN "package"
        ELSE IF filename = <<"r","e","q","u","i","r","e","m","e","n","t","s",".","t","x","t">> THEN "requirements"
        ELSE IF includes(filename, <<"d","o","c","k","e","r">>) THEN "docker"
        ELSE IF includes(filename, <<"t","e","s","t">>) \/ includes(filename, <<"s","p","e","c">>) THEN "test"
        ELSE IF includes(filename, <<"c","o","n","f","i","g">>) \/ includes(filename, <<".","j","s","o","n">>) THEN "config"
        ELSE "none"
  IN  [filename |-> filename,
       content  |-> storeContent(content),
       type     |-> CASE branch = "readme" -> "documentation"
                      [] branch \in {"package", "requirements", "config"} -> "config"
                      [] branch = "docker" -> "build"
                      [] branch = "test" -> "test"
                      [] OTHER -> "code",
       language |-> IF branch = "package" THEN "json" ELSE "undefined",
       insights |-> CASE branch = "readme" -> analyzeReadme(content)
                      [] branch = "package" -> analyzePackageJson(content)
                      [] branch = "requirements" -> analyzePythonRequirements(content)
                      [] branch = "docker" -> analyzeDockerfile(content)
                      [] branch = "test" -> analyzeTestConfig(content)
                      [] branch = "config" -> analyzeConfigFile(filename, content)
                      [] OTHER -> <<>>]

\* the first key file of that name, <<>> wrapped: keyFiles.find(f => f.filename === name)
find(keyFiles, name) ==
  LET at == {i \in 1..Len(keyFiles) : keyFiles[i].filename = name}
  IN  IF at = {} THEN <<>> ELSE <<keyFiles[first(at)]>>

NoStructure ==
  [framework |-> "", language |-> "", buildSystem |-> "", testFramework |-> "",
   dependencies |-> <<>>, scripts |-> <<>>, architecture |-> ""]

\* DeepRepositoryAnalyzer.analyzeProjectStructure. JSON.parse of the stored content
\* throws on a malformed text; on null the language is set before pkg.dependencies
\* throws. scripts holds the pairs Object.assign copies
analyzeProjectStructure(keyFiles) ==
  LET packageJson == find(keyFiles, <<"p","a","c","k","a","g","e",".","j","s","o","n">>)
      pkg == IF packageJson = <<>> THEN NotJson ELSE packageJson[1].content.json
      parsed == packageJson # <<>> /\ pkg.kind # "SyntaxError"
      object == parsed /\ pkg.kind = "object"
      nodeFramework ==
        IF ~(object /\ pkg.hasDependencies) THEN "Unknown"
        ELSE IF has(pkg.dependencies, "react") THEN "React"
        ELSE IF has(pkg.dependencies, "vue") THEN "Vue.js"
        ELSE IF has(pkg.dependencies, "angular") THEN "Angular"
        ELSE IF has(pkg.dependencies, "next") THEN "Next.js"
        ELSE IF has(pkg.dependencies, "express") THEN "Express.js"
        ELSE IF has(pkg.dependencies, "fastify") THEN "Fastify"
        ELSE "Unknown"
      build == IF object /\ pkg.hasScripts THEN command(pkg, "build") ELSE <<>>
      buildSystem ==
        IF build = <<>> THEN "Unknown"
        ELSE IF includes(build, <<"w","e","b","p","a","c","k">>) THEN "Webpack"
        ELSE IF includes(build, <<"v","i","t","e">>) THEN "Vite"
        ELSE "Custom"
      testFramework ==
        IF ~(object /\ pkg.hasDevDependencies) THEN "undefined"
        ELSE IF has(pkg.devDependencies, "jest") THEN "Jest"
        ELSE IF has(pkg.devDependencies, "mocha") THEN "Mocha"
        ELSE IF has(pkg.devDependencies, "cypress") THEN "Cypress"
        ELSE "undefined"
      requirements == find(keyFiles, <<"r","e","q","u","i","r","e","m","e","n","t","s",".","t","x","t">>)
      lines == IF requirements = <<>> THEN <<>>
               ELSE splitLines(requirements[1].content.text)
      some(word) == \E i \in 1..Len(lines) : includes(lines[i], word)
      framework ==
        IF requirements = <<>> THEN nodeFramework
        ELSE IF some(<<"d","j","a","n","g","o">>) THEN "Django"
        ELSE IF some(<<"f","l","a","s","k">>) THEN "Flask"
        ELSE IF some(<<"f","a","s","t","a","p","i">>) THEN "FastAPI"
        ELSE nodeFramework
      architecture ==
        IF \E i \in 1..Len(keyFiles) : includes(keyFiles[i].filename, <<"d","o","c","k","e","r">>)
        THEN "Containerized"
        ELSE IF framework \in {"Next.js", "React"} THEN "Single Page Application"
        ELSE IF framework \in {"Express.js", "FastAPI"} THEN "API Server"
        ELSE "Unknown"
  IN  [framework     |-> framework,
       language      |-> IF requirements # <<>> THEN "Python"
                         ELSE IF parsed THEN "JavaScript/TypeScript" ELSE "Unknown",
       buildSystem   |-> buildSystem,
       testFramework |-> testFramework,
       dependencies  |-> IF object /\ pkg.hasDependencies THEN pkg.dependencies ELSE <<>>,
       scripts       |-> IF object /\ pkg.hasScripts
                         THEN [i \in 1..Len(pkg.scripts) |->
                                 [name |-> pkg.scripts[i], command |-> pkg.commands[i]]]
                         ELSE <<>>,
       architecture  |-> architecture]

(* ------------------------------- state --------------------------------- *)
VARIABLES
  request,        \* the POST request
  response,       \* "none", "401", "400", "500" or "stream"
  pc,             \* where the handler and the service it awaits stand
  isStreamClosed, \* the flag of start()
  controller,     \* the stream controller: "none", "open", "closed", "cancelled"
  events,         \* the frames enqueued on the stream
  stepIdx,        \* i of the progressSteps loop
  attempt,        \* 1: generateComprehensiveOnboarding; 2: generateBasicOnboarding
  thrown,         \* the error message travelling to a catch
  firstError,     \* the error generateBasicOnboarding was called with
  inflight,       \* hosting-API requests awaited
  settled,        \* their outcome, until the next requests are issued
  repository,     \* repoData.repository, less the analytics no later step reads
  tree,           \* the file tree of the gather
  treeIdx,        \* the tree item whose content is awaited
  keyFiles,       \* repoData.keyFiles
  messages,       \* messages of performClaudeCodeAnalysis
  result,         \* the OnboardingResult handed to the route
  aborted,        \* the abort listener has run
  deadlinePassed, \* the documented analysis timeout ran out during the AI query
  aiOutcome,      \* how the AI query ended: "none", "done", "threw-first", "threw-later"
  gathered,       \* a gatherRepositoryData of this run has returned
  metaFailed,     \* a repos.get request of this run has failed
  metaCause,      \* why the first failed repos.get of this run was rejected
  gatherCalls,    \* invocations of gatherRepositoryData so far
  auxFailed,      \* a request whose failure is swallowed failed in the current gather
  fetchFailed,    \* paths whose content request failed in the current gather
  apiCalls,       \* hosting-API requests issued so far
  aiCalls,        \* AI queries started so far
  classified,     \* key-file entries getKeyFiles has built, with their inputs
  insights,       \* the insights array of the latest analyzeFileContent call
  analyses,       \* FileAnalysis values analyzeFile has built, in allow-list order
  inputs,         \* the contents analyzeFile was applied to, one per analysis
  structure,      \* the ProjectStructure built from analyses
  repoData,       \* the RepositoryAnalysisData the report generators are given
  claudeOutcome,  \* how the AI query of performClaudeCodeAnalysis ended
  claudeAnalysis, \* what performClaudeCodeAnalysis returned
  onboardingGuide,    \* sections of generateEnhancedOnboardingGuide
  recommendations,    \* the array of generateEnhancedRecommendations
  runs,           \* the phase of each onboarding request of one user
  written,        \* the frames the route has written to the response body
  wire,           \* the bytes written that the client has not read yet
  writerClosed,   \* the route has closed the body
  readerDone,     \* reader.read() has returned done
  terminalLines,  \* what the onboarding page did with each line it took for a frame
  resultsSet,     \* calls of setResult by the onboarding page
  isAnalyzing,    \* the loading flag of the onboarding page
  isHealing,      \* the loading flag of DiagramFixPage
  healError,      \* the error DiagramFixPage shows ("" for null)
  showComparison  \* DiagramFixPage shows the healed diagram

pipelineVars ==
  <<request, response, pc, isStreamClosed, controller, events, stepIdx, attempt,
    thrown, firstError, inflight, settled, repository, tree, treeIdx, keyFiles,
    messages, result, aborted, deadlinePassed, aiOutcome, gathered, metaFailed,
    metaCause, gatherCalls,
    auxFailed, fetchFailed, apiCalls, aiCalls>>

analyzerVars == <<classified, insights, analyses, inputs, structure>>
reportVars ==
  <<repoData, claudeOutcome, claudeAnalysis, onboardingGuide, recommendations>>
userVars == <<runs>>
wireVars == <<written, wire, writerClosed, readerDone>>
clientVars == <<terminalLines, resultsSet, isAnalyzing>>
healVars == <<isHealing, healError, showComparison>>
extraVars == <<reportVars, userVars, wireVars, clientVars, healVars>>
vars == <<pipelineVars, analyzerVars, extraVars>>

streamVars == <<isStreamClosed, controller, events>>
gatherVars == <<inflight, settled, repository, tree, treeIdx, keyFiles, fetchFailed,
                metaFailed, metaCause, gatherCalls, auxFailed, apiCalls>>
serviceVars == <<attempt, thrown, firstError, messages, result, deadlinePassed,
                 aiOutcome, gathered, aiCalls>>

InitRun ==
  /\ request \in Requests
  /\ response = "none"
  /\ pc = "init"
  /\ isStreamClosed = FALSE
  /\ controller = "none"
  /\ events = <<>>
  /\ stepIdx = 0
  /\ attempt = 1
  /\ thrown = ""
  /\ firstError = ""
  /\ inflight = {}
  /\ settled = NoSettled
  /\ repository = NoRepository
  /\ tree = <<>>
  /\ treeIdx = 0
  /\ keyFiles = <<>>
  /\ messages = <<>>
  /\ result = NoResult
  /\ aborted = FALSE
  /\ deadlinePassed = FALSE
  /\ aiOutcome = "none"
  /\ gathered = FALSE
  /\ metaFailed = FALSE
  /\ metaCause = "none"
  /\ gatherCalls = 0
  /\ auxFailed = FALSE
  /\ fetchFailed = {}
  /\ apiCalls = 0
  /\ aiCalls = 0
  /\ classified = <<>>
  /\ insights = <<>>
  /\ analyses = <<>>
  /\ inputs = <<>>
  /\ structure = NoStructure

\* no report generator has been called
ReportIdle ==
  /\ repoData = NoRepoData
  /\ claudeOutcome = "none"
  /\ claudeAnalysis = NoAnalysis
  /\ onboardingGuide = <<>>
  /\ recommendations = <<>>

\* no onboarding request of the user has arrived
UsersIdle == runs = [r \in 1..MaxRequests |-> "idle"]

\* no response body is being read
WireIdle ==
  /\ written = <<>>
  /\ wire = <<>>
  /\ writerClosed = FALSE
  /\ readerDone = FALSE

\* the pages as mounted: useState initial values
ClientIdle ==
  /\ terminalLines = <<>>
  /\ resultsSet = 0
  /\ isAnalyzing = FALSE
HealIdle ==
  /\ isHealing = FALSE
  /\ healError = ""
  /\ showComparison = FALSE

Init ==
  /\ InitRun
  /\ ReportIdle
  /\ UsersIdle
  /\ WireIdle
  /\ ClientIdle
  /\ HealIdle

(* ------------------------------ the stream ----------------------------- *)
\* sendSSE: nothing once isStreamClosed; an enqueue on a controller that is no
\* longer open throws, which sets isStreamClosed. s is [isStreamClosed, events].
sendSSE(s, data) ==
  IF s.isStreamClosed THEN s
  ELSE IF controller = "open" THEN [s EXCEPT !.events = Append(@, data)]
  ELSE [s EXCEPT !.isStreamClosed = TRUE]

Stream == [isStreamClosed |-> isStreamClosed, events |-> events]

\* a finally block that leaves the controller as it is
FinallyNoClose(s) ==
  /\ isStreamClosed' = s.isStreamClosed
  /\ events' = s.events
  /\ controller' = controller

\* the finally block of start(), run on the stream state s the try block left
Finally(s) ==
  /\ isStreamClosed' = s.isStreamClosed
  /\ events' = s.events
  /\ controller' = IF ~s.isStreamClosed /\ controller = "open" THEN "closed" ELSE controller

\* an abort listener that only logs the disconnect
AbortListenerLogsOnly == UNCHANGED <<isStreamClosed, controller>>

\* the abort listener: sets the flag and closes the controller (a second close throws
\* and is swallowed)
AbortListener ==
  /\ isStreamClosed' = TRUE
  /\ controller' = IF controller = "open" THEN "closed" ELSE controller

\* the handler is suspended on I/O or a timer: only there can other tasks run
Awaiting == pc \in {"analytics", "tree", "content", "ai", "sleep"}

\* the request signal fires 'abort' (once)
Abort ==
  /\ response = "stream"
  /\ Awaiting \/ pc = "done"
  /\ ~aborted
  /\ aborted' = TRUE
  /\ AbortListener
  /\ UNCHANGED <<request, response, pc, events, stepIdx, gatherVars, serviceVars>>
  /\ UNCHANGED <<analyzerVars, extraVars>>

\* the consumer of the response body cancels the stream: enqueue throws from then on
Cancel ==
  /\ response = "stream"
  /\ Awaiting
  /\ controller = "open"
  /\ controller' = "cancelled"
  /\ UNCHANGED <<request, response, pc, isStreamClosed, events, stepIdx, aborted,
                 gatherVars, serviceVars>>
  /\ UNCHANGED <<analyzerVars, extraVars>>

(* ------------------------------ the route ------------------------------ *)
missing(field) == field \in {"MISSING", ""}

\* POST with a validation that tests the owner alone
POSTOwnerOnly ==
  /\ pc = "init"
  /\ IF ~request.session
     THEN response' = "401" /\ pc' = "done" /\ controller' = controller
     ELSE IF ~request.bodyParses
     THEN response' = "500" /\ pc' = "done" /\ controller' = controller
     ELSE IF missing(request.owner)
     THEN response' = "400" /\ pc' = "done" /\ controller' = controller
     ELSE response' = "stream" /\ pc' = "start" /\ controller' = "open"
  /\ UNCHANGED <<request, isStreamClosed, events, stepIdx, aborted, gatherVars,
                 serviceVars>>
  /\ UNCHANGED <<analyzerVars, extraVars>>

\* POST up to the creation of the stream: session check, body, validation
POST ==
  /\ pc = "init"
  /\ IF ~request.session
     THEN response' = "401" /\ pc' = "done" /\ controller' = controller
     ELSE IF ~request.bodyParses
     THEN response' = "500" /\ pc' = "done" /\ controller' = controller
     ELSE IF missing(request.owner) \/ missing(request.repo)
     THEN response' = "400" /\ pc' = "done" /\ controller' = controller
     ELSE response' = "stream" /\ pc' = "start" /\ controller' = "open"
  /\ UNCHANGED <<request, isStreamClosed, events, stepIdx, aborted, gatherVars,
                 serviceVars>>
  /\ UNCHANGED <<analyzerVars, extraVars>>

\* start(): the two opening progress events, then the service is called
StartAnalysis ==
  /\ pc = "start"
  /\ LET s1 == sendSSE(Stream, ProgressEvent("Starting repository analysis..."))
         s2 == sendSSE(s1, ProgressEvent("Gathering repository data..."))
     IN  /\ isStreamClosed' = s2.isStreamClosed
         /\ events' = s2.events
  /\ pc' = "gather"
  /\ UNCHANGED <<request, response, controller, stepIdx, aborted, gatherVars,
                 serviceVars>>
  /\ UNCHANGED <<analyzerVars, extraVars>>

(* ------------------------ gatherRepositoryData ------------------------- *)
\* gatherRepositoryData is entered: getComprehensiveRepoAnalytics issues its
\* thirteen requests together
BeginGather ==
  /\ pc = "gather"
  /\ gatherCalls' = gatherCalls + 1
  /\ inflight' = AnalyticsCalls
  /\ apiCalls' = apiCalls + Cardinality(AnalyticsCalls)
  /\ settled' = NoSettled
  /\ repository' = NoRepository
  /\ tree' = <<>>
  /\ treeIdx' = 0
  /\ keyFiles' = <<>>
  /\ fetchFailed' = {}
  /\ auxFailed' = FALSE
  /\ pc' = "analytics"
  /\ UNCHANGED <<request, response, streamVars, stepIdx, aborted, metaFailed,
                 metaCause,
                 serviceVars>>
  /\ UNCHANGED <<analyzerVars, extraVars>>

\* the hosting API answers the analytics requests
SettleAnalytics ==
  /\ pc = "analytics"
  /\ \E failed \in FaultSets(AnalyticsCalls) :
       \E meta \in (IF failed \cap RepoDetailsCalls = {} THEN RepoMetas ELSE {NoMeta}) :
          /\ settled' = Settled(failed, meta, <<>>, NoResponse)
          /\ metaFailed' = (metaFailed \/ "repos.get" \in failed)
          /\ IF "repos.get" \in failed /\ metaCause = "none"
             THEN \E cause \in RejectionCauses : metaCause' = cause
             ELSE metaCause' = metaCause
          /\ auxFailed' = (failed \cap (StatsCalls \cup TrafficCalls) # {})
  /\ inflight' = {}
  /\ pc' = "analytics_settled"
  /\ UNCHANGED <<request, response, streamVars, stepIdx, aborted, repository, tree,
                 treeIdx, keyFiles, fetchFailed, gatherCalls, apiCalls, serviceVars>>
  /\ UNCHANGED <<analyzerVars, extraVars>>

\* getComprehensiveRepoAnalytics returns or throws; on return getRepositoryTree
\* issues its request
AnalyticsReturn ==
  /\ pc = "analytics_settled"
  /\ LET r == getComprehensiveRepoAnalytics(settled.failed, settled.meta)
     IN  IF r.ok
         THEN /\ repository' = [repo |-> r.val.repo]
              /\ inflight' = {TreeCall}
              /\ apiCalls' = apiCalls + 1
              /\ thrown' = thrown
              /\ pc' = "tree"
         ELSE /\ thrown' = r.err
              /\ pc' = "catch"
              /\ UNCHANGED <<repository, inflight, apiCalls>>
  /\ UNCHANGED <<request, response, streamVars, stepIdx, aborted, settled, tree,
                 treeIdx, keyFiles, fetchFailed, metaFailed, metaCause, gatherCalls,
                 auxFailed, attempt,
                 firstError, messages, result, deadlinePassed, aiOutcome, gathered,
                 aiCalls>>
  /\ UNCHANGED <<analyzerVars, extraVars>>

\* the hosting API answers the tree request
SettleTree ==
  /\ pc = "tree"
  /\ \/ settled' = Settled({TreeCall}, NoMeta, <<>>, NoResponse)
     \/ \E t \in Trees : settled' = Settled({}, NoMeta, t, NoResponse)
  /\ inflight' = {}
  /\ pc' = "tree_settled"
  /\ UNCHANGED <<request, response, streamVars, stepIdx, aborted, repository, tree,
                 treeIdx, keyFiles, fetchFailed, metaFailed, metaCause, gatherCalls,
                 auxFailed, apiCalls,
                 serviceVars>>
  /\ UNCHANGED <<analyzerVars, extraVars>>

\* a getKeyFiles that requests the content of every remaining listed file at once
NextKeyFileAllAtOnce(t, i) ==
  LET k == nextKeyFile(t, i)
      rest == {j \in k..Len(t) : isKeyFile(t[j].path)}
  IN  IF k <= Len(t)
      THEN /\ treeIdx' = k
           /\ inflight' = {<<"repos.getContent", j>> : j \in rest}
           /\ apiCalls' = apiCalls + Cardinality(rest)
           /\ pc' = "content"
      ELSE /\ treeIdx' = k
           /\ inflight' = {}
           /\ apiCalls' = apiCalls
           /\ pc' = "gathered"

\* the loop of getKeyFiles moves on to the item at or after i whose name is on the
\* list and requests its content, or ends
NextKeyFile(t, i) ==
  LET k == nextKeyFile(t, i)
  IN  IF k <= Len(t)
      THEN /\ treeIdx' = k
           /\ inflight' = {"repos.getContent"}
           /\ apiCalls' = apiCalls + 1
           /\ pc' = "content"
      ELSE /\ treeIdx' = k
           /\ inflight' = {}
           /\ apiCalls' = apiCalls
           /\ pc' = "gathered"

\* getRepositoryTree returns or throws; on return the tree is mapped to
\* codeStructure and getKeyFiles starts
TreeReturn ==
  /\ pc = "tree_settled"
  /\ LET r == getRepositoryTree(settled.failed, settled.tree)
     IN  IF r.ok
         THEN /\ tree' = r.val
              /\ NextKeyFile(r.val, 1)
              /\ thrown' = thrown
         ELSE /\ thrown' = r.err
              /\ pc' = "catch"
              /\ UNCHANGED <<tree, treeIdx, inflight, apiCalls>>
  /\ UNCHANGED <<request, response, streamVars, stepIdx, aborted, settled, repository,
                 keyFiles, fetchFailed, metaFailed, metaCause, gatherCalls,
                 auxFailed, attempt, firstError,
                 messages, result, deadlinePassed, aiOutcome, gathered, aiCalls>>
  /\ UNCHANGED <<analyzerVars, extraVars>>

\* the hosting API answers the content request
SettleContent ==
  /\ pc = "content"
  /\ \E resp \in ContentResponses :
       settled' = Settled(IF resp.status = "error" THEN {"repos.getContent"} ELSE {},
                          NoMeta, <<>>, resp)
  /\ inflight' = {}
  /\ pc' = "content_settled"
  /\ UNCHANGED <<request, response, streamVars, stepIdx, aborted, repository, tree,
                 treeIdx, keyFiles, fetchFailed, metaFailed, metaCause, gatherCalls,
                 auxFailed, apiCalls,
                 serviceVars>>
  /\ UNCHANGED <<analyzerVars, extraVars>>

\* getFileContent returns; the body of the loop of getKeyFiles pushes the entry
ContentReturn ==
  /\ pc = "content_settled"
  /\ keyFiles' = Append(keyFiles,
                        keyFileEntry(tree[treeIdx].path, getFileContent(settled.response)))
  /\ fetchFailed' = IF settled.response.status = "error"
                    THEN fetchFailed \cup {tree[treeIdx].path} ELSE fetchFailed
  /\ NextKeyFile(tree, treeIdx + 1)
  /\ UNCHANGED <<request, response, streamVars, stepIdx, aborted, settled, repository,
                 tree, metaFailed, metaCause, gatherCalls,
                 auxFailed, serviceVars>>
  /\ UNCHANGED <<analyzerVars, extraVars>>

RepoData ==
  [repository |-> repository, codeStructure |-> analyzeCodeStructure(tree),
   keyFiles |-> keyFiles]

\* gatherRepositoryData returns repoData: generateComprehensiveOnboarding goes on
\* to the AI query, generateBasicOnboarding to its result
GatherReturn ==
  /\ pc = "gathered"
  /\ gathered' = TRUE
  /\ settled' = NoSettled
  /\ IF attempt = 1
     THEN /\ pc' = "ai"
          /\ aiCalls' = aiCalls + 1
          /\ UNCHANGED <<result, repository, tree, keyFiles, fetchFailed>>
     ELSE /\ pc' = "result"
          /\ result' = basicResult(RepoData)
          /\ repository' = NoRepository
          /\ tree' = <<>>
          /\ keyFiles' = <<>>
          /\ fetchFailed' = {}
          /\ aiCalls' = aiCalls
  /\ UNCHANGED <<request, response, streamVars, stepIdx, aborted, inflight, treeIdx,
                 metaFailed, metaCause, gatherCalls,
                 auxFailed, apiCalls, attempt, thrown, firstError,
                 messages, deadlinePassed, aiOutcome>>
  /\ UNCHANGED <<analyzerVars, extraVars>>

\* the catch of generateComprehensiveOnboarding calls generateBasicOnboarding, which
\* gathers again; the catch of generateBasicOnboarding returns the failure
Catch ==
  /\ pc = "catch"
  /\ IF attempt = 1
     THEN /\ attempt' = 2
          /\ firstError' = thrown
          /\ pc' = "gather"
          /\ result' = result
     ELSE /\ result' = failedResult(firstError)
          /\ pc' = "result"
          /\ UNCHANGED <<attempt, firstError>>
  /\ thrown' = ""
  /\ UNCHANGED <<request, response, streamVars, stepIdx, aborted, gatherVars, messages,
                 deadlinePassed, aiOutcome, gathered, aiCalls>>
  /\ UNCHANGED <<analyzerVars, extraVars>>

(* ---------------------- performClaudeCodeAnalysis ---------------------- *)
\* the AI query yields a message
AIMessage ==
  /\ pc = "ai"
  /\ Len(messages) < MaxMessages
  /\ \E m \in AIMessages : messages' = Append(messages, m)
  /\ UNCHANGED <<request, response, pc, streamVars, stepIdx, aborted, gatherVars,
                 attempt, thrown, firstError, result, deadlinePassed, aiOutcome,
                 gathered, aiCalls>>
  /\ UNCHANGED <<analyzerVars, extraVars>>

\* the documented analysis timeout runs out while the query is pending; the code
\* sets no timer and never calls abortController.abort()
DeadlinePasses ==
  /\ pc = "ai"
  /\ ~deadlinePassed
  /\ deadlinePassed' = TRUE
  /\ UNCHANGED <<request, response, pc, streamVars, stepIdx, aborted, gatherVars,
                 attempt, thrown, firstError, messages, result, aiOutcome, gathered,
                 aiCalls>>
  /\ UNCHANGED <<analyzerVars, extraVars>>

\* the query ends (outcome "done") or raises (outcome "throw"); the report is built
\* from repoData and the analysis
AIEnds(outcome) ==
  /\ pc = "ai"
  /\ aiOutcome' = IF outcome = "done" THEN "done"
                  ELSE IF messages = <<>> THEN "threw-first" ELSE "threw-later"
  /\ LET r == performClaudeCodeAnalysis(outcome, messages)
     IN  IF r.ok
         THEN /\ result' = comprehensiveResult(RepoData, r.val)
              /\ pc' = "result"
              /\ thrown' = thrown
         ELSE /\ thrown' = r.err
              /\ pc' = "catch"
              /\ result' = result
  /\ messages' = <<>>
  /\ deadlinePassed' = FALSE
  /\ repository' = NoRepository
  /\ tree' = <<>>
  /\ keyFiles' = <<>>
  /\ fetchFailed' = {}
  /\ UNCHANGED <<request, response, streamVars, stepIdx, aborted, inflight, settled,
                 treeIdx, metaFailed, metaCause, gatherCalls,
                 auxFailed, apiCalls, attempt, firstError,
                 gathered, aiCalls>>
  /\ UNCHANGED <<analyzerVars, extraVars>>

AIComplete == AIEnds("done")
AIThrow == AIEnds("throw")

(* -------------------------- the route, resumed ------------------------- *)
\* HandleResult without the error event of a failed result
HandleResultSilentFailure ==
  /\ pc = "result"
  /\ IF isStreamClosed
     THEN Finally(Stream) /\ pc' = "done"
     ELSE IF result.success
     THEN UNCHANGED streamVars /\ pc' = "steps"
     ELSE Finally(Stream) /\ pc' = "done"
  /\ stepIdx' = 0
  /\ UNCHANGED <<request, response, aborted, gatherVars, serviceVars>>
  /\ UNCHANGED <<analyzerVars, extraVars>>

\* generateComprehensiveOnboarding has returned: the early return of a closed
\* stream, the error event of a failure, or the progressSteps loop
HandleResult ==
  /\ pc = "result"
  /\ IF isStreamClosed
     THEN Finally(Stream) /\ pc' = "done"
     ELSE IF result.success
     THEN UNCHANGED streamVars /\ pc' = "steps"
     ELSE Finally(sendSSE(Stream, ErrorEvent(result.error))) /\ pc' = "done"
  /\ stepIdx' = 0
  /\ UNCHANGED <<request, response, aborted, gatherVars, serviceVars>>
  /\ UNCHANGED <<analyzerVars, extraVars>>

\* one round of the loop: the step's event, then the 300 ms timer is awaited
StepSend ==
  /\ pc = "steps"
  /\ stepIdx < Len(progressSteps)
  /\ ~isStreamClosed
  /\ LET s == sendSSE(Stream, StepEvent(progressSteps[stepIdx + 1]))
     IN  isStreamClosed' = s.isStreamClosed /\ events' = s.events
  /\ pc' = "sleep"
  /\ UNCHANGED <<request, response, controller, stepIdx, aborted, gatherVars,
                 serviceVars>>
  /\ UNCHANGED <<analyzerVars, extraVars>>

\* the timer fires
StepTimer ==
  /\ pc = "sleep"
  /\ stepIdx' = stepIdx + 1
  /\ pc' = "steps"
  /\ UNCHANGED <<request, response, streamVars, aborted, gatherVars, serviceVars>>
  /\ UNCHANGED <<analyzerVars, extraVars>>

\* the loop is left: the complete event unless the stream is closed, then finally
Finish ==
  /\ pc = "steps"
  /\ stepIdx >= Len(progressSteps) \/ isStreamClosed
  /\ Finally(sendSSE(Stream, CompleteEvent(result)))
  /\ pc' = "done"
  /\ UNCHANGED <<request, response, stepIdx, aborted, gatherVars, serviceVars>>
  /\ UNCHANGED <<analyzerVars, extraVars>>

Next ==
  \/ POST
  \/ StartAnalysis
  \/ BeginGather
  \/ SettleAnalytics
  \/ AnalyticsReturn
  \/ SettleTree
  \/ TreeReturn
  \/ SettleContent
  \/ ContentReturn
  \/ GatherReturn
  \/ Catch
  \/ AIMessage
  \/ DeadlinePasses
  \/ AIComplete
  \/ AIThrow
  \/ HandleResult
  \/ StepSend
  \/ StepTimer
  \/ Finish
  \/ Abort
  \/ Cancel

Spec == Init /\ [][Next]_vars

(* ------------------- file classification, applied ---------------------- *)
\* getKeyFiles of RepositoryOnboardingService and analyzeFile of
\* DeepRepositoryAnalyzer belong to two services; a behaviour applies one of them
\* most entries the classification log holds
MaxClassified == 3

\* contents: a valid manifest, the same manifest with white space before its closing
\* brace that takes it past the stored length, a server manifest, a manifest cut
\* short, the literal null, a requirements file, a Dockerfile, a README
ReactContent == [text |-> ReactText, json |-> ReactPackage]
LongReactContent ==
  [text |-> SubSeq(ReactText, 1, Len(ReactText) - 1) \o Padding(MaxStoredChars) \o <<"}">>,
   json |-> ReactPackage]
ExpressContent == [text |-> ExpressText, json |-> ExpressPackage]
TruncatedContent == [text |-> substring0(ReactText, 40), json |-> NotJson]
NullContent == [text |-> <<"n","u","l","l">>, json |-> JsonNull]
RequirementsContent == [text |-> <<"#"," ","a","p","i","\\","n","f","a","s","t","a","p","i","=","=","0",".","1","\\","n">>, json |-> NotJson]
DockerContent == [text |-> <<"F","R","O","M"," ","n","o","d","e",":","2","0","\\","n","E","X","P","O","S","E"," ","3","0","0","0">>, json |-> NotJson]
ReadmeContent ==
  [text |-> <<"#","#"," ","I","n","s","t","a","l","l","a","t","i","o","n","\\","n">> \o Fence \o <<"n","p","m"," ","i","n","s","t","a","l","l">> \o Fence, json |-> NotJson]

\* the (path, content) pairs getKeyFiles classifies
ClassifyPaths == {<<"p","a","c","k","a","g","e",".","j","s","o","n">>, <<"R","E","A","D","M","E",".","m","d">>}
ClassifyContents == {ReactContent, TruncatedContent, NullContent}

\* the contents the repository holds under a name of the allow-list
AnalyzerContents(filename) ==
  IF filename = <<"p","a","c","k","a","g","e",".","j","s","o","n">>
  THEN {ReactContent, LongReactContent, ExpressContent, TruncatedContent}
  ELSE IF filename = <<"r","e","q","u","i","r","e","m","e","n","t","s",".","t","x","t">> THEN {RequirementsContent}
  ELSE IF includes(toLowerCase(filename), <<"d","o","c","k","e","r">>) THEN {DockerContent}
  ELSE IF filename = <<"R","E","A","D","M","E",".","m","d">> THEN {ReadmeContent}
  ELSE {}

position(filename) ==
  CHOOSE k \in 1..Len(analyzerKeyFileNames) : analyzerKeyFileNames[k] = filename

\* the body of the loop of getKeyFiles with a shared insights array: the calls of
\* analyzeFileContent push onto the array of the calls before
ClassifyFileSharedInsights ==
  /\ analyses = <<>> /\ structure = NoStructure
  /\ Len(classified) < MaxClassified
  /\ \E path \in ClassifyPaths, c \in ClassifyContents :
       /\ insights' = insights \o analyzeFileContent(path, c)
       /\ classified' = Append(classified,
                               [path |-> path, input |-> c,
                                content |-> truncateContent(c),
                                type |-> getFileType(path),
                                insights |-> insights'])
  /\ UNCHANGED <<analyses, inputs, structure>>
  /\ UNCHANGED <<pipelineVars, extraVars>>

\* the body of the loop of getKeyFiles for one file: analyzeFileContent starts from
\* an empty insights array, the entry holds what it returns
ClassifyFile ==
  /\ analyses = <<>> /\ structure = NoStructure
  /\ Len(classified) < MaxClassified
  /\ \E path \in ClassifyPaths, c \in ClassifyContents :
       /\ insights' = analyzeFileContent(path, c)
       /\ classified' = Append(classified,
                               [path |-> path, input |-> c,
                                content |-> truncateContent(c),
                                type |-> getFileType(path),
                                insights |-> insights'])
  /\ UNCHANGED <<analyses, inputs, structure>>
  /\ UNCHANGED <<pipelineVars, extraVars>>

\* analyzeFile is applied to the next file of the allow-list the repository holds
AnalyzeFile ==
  /\ classified = <<>>
  /\ structure = NoStructure
  /\ \E k \in 1..Len(analyzerKeyFileNames) :
       /\ \A i \in 1..Len(analyses) : position(analyses[i].filename) < k
       /\ \E c \in AnalyzerContents(analyzerKeyFileNames[k]) :
            /\ analyses' = Append(analyses, analyzeFile(analyzerKeyFileNames[k], c))
            /\ inputs' = Append(inputs, c)
  /\ UNCHANGED <<classified, insights, structure>>
  /\ UNCHANGED <<pipelineVars, extraVars>>

\* analyzeProjectStructure is applied to the analyses
InferStructure ==
  /\ classified = <<>>
  /\ structure = NoStructure
  /\ structure' = analyzeProjectStructure(analyses)
  /\ UNCHANGED <<classified, insights, analyses, inputs>>
  /\ UNCHANGED <<pipelineVars, extraVars>>

InitAnalyzer ==
  /\ Init
  /\ request = [session |-> TRUE, bodyParses |-> TRUE, owner |-> "acme", repo |-> "app"]

NextAnalyzer ==
  \/ ClassifyFile
  \/ AnalyzeFile
  \/ InferStructure

SpecAnalyzer == InitAnalyzer /\ [][NextAnalyzer]_vars

(* ----------------------- report generators, alone ---------------------- *)
MaxReportMessages == 2

\* texts of AI messages around the length and list limits of the generators: setup
\* notes that make 50 and 51 characters once the newline is appended, and a text
\* with seven bullet lines read as features and as insights
ReportMessages ==
  AIMessages \cup
  {[type |-> "assistant", text |-> Text("setup-49", {"install"}, <<>>, 49)],
   [type |-> "assistant", text |-> Text("setup-50", {"install"}, <<>>, 50)],
   [type |-> "assistant",
    text |-> Text("long-list", {"capability", "insight"},
                  <<"b1", "b2", "b3", "b4", "b5", "b6", "b7">>, 90)]}

ReportMessageLists ==
  UNION {[1..n -> ReportMessages] : n \in 0..MaxReportMessages}

\* repoData values: the main language, the description, the key files read
ReportRepoData ==
  {[repository |-> [repo |-> [language |-> l, description |-> d]], keyFiles |-> k] :
     l \in Languages, d \in {"", "demo"},
     k \in {<<>>,
            <<keyFileEntry(<<"s","c","h","e","m","a",".","p","r","i","s","m","a">>,
                           [isNull |-> FALSE, content |-> EmptyContent])>>}}

\* performClaudeCodeAnalysis returns, after the query ended or raised
Enrich ==
  /\ claudeOutcome = "none"
  /\ \E outcome \in {"done", "throw"}, msgs \in ReportMessageLists :
       /\ claudeOutcome' = outcome
       /\ claudeAnalysis' = performClaudeCodeAnalysis(outcome, msgs).val
  /\ UNCHANGED <<repoData, onboardingGuide, recommendations>>
  /\ UNCHANGED <<pipelineVars, analyzerVars, userVars, wireVars, clientVars, healVars>>

\* generateComprehensiveOnboarding builds the guide from the analysis
BuildGuide ==
  /\ claudeOutcome # "none"
  /\ onboardingGuide = <<>>
  /\ onboardingGuide' =
       generateEnhancedOnboardingGuide(repoData, claudeAnalysis, request.owner,
                                       request.repo)
  /\ UNCHANGED <<repoData, claudeOutcome, claudeAnalysis, recommendations>>
  /\ UNCHANGED <<pipelineVars, analyzerVars, userVars, wireVars, clientVars, healVars>>

\* and then the recommendations
BuildRecommendations ==
  /\ onboardingGuide # <<>>
  /\ recommendations = <<>>
  /\ recommendations' = generateEnhancedRecommendations(repoData, claudeAnalysis)
  /\ UNCHANGED <<repoData, claudeOutcome, claudeAnalysis, onboardingGuide>>
  /\ UNCHANGED <<pipelineVars, analyzerVars, userVars, wireVars, clientVars, healVars>>

InitReport ==
  /\ InitRun
  /\ request = [session |-> TRUE, bodyParses |-> TRUE, owner |-> "acme", repo |-> "app"]
  /\ repoData \in ReportRepoData
  /\ claudeOutcome = "none"
  /\ claudeAnalysis = NoAnalysis
  /\ onboardingGuide = <<>>
  /\ recommendations = <<>>
  /\ UsersIdle
  /\ WireIdle
  /\ ClientIdle
  /\ HealIdle

NextReport ==
  \/ Enrich
  \/ BuildGuide
  \/ BuildRecommendations

SpecReport == InitReport /\ [][NextReport]_vars

(* ------------------- onboarding requests of one user ------------------- *)
\* the documented limit of analyses one user may have in progress
ConcurrentAnalyses == 5

\* the requests of the user whose analysis is in progress
Running == {r \in 1..MaxRequests : runs[r] \in {"analysing", "reporting"}}

\* POST for a request of the user, with session, owner and repo: the stream is
\* opened and generateComprehensiveOnboarding is called; nothing the handler
\* reads depends on the other requests
Arrive(r) ==
  /\ runs[r] = "idle"
  /\ runs' = [runs EXCEPT ![r] = "analysing"]
  /\ UNCHANGED <<pipelineVars, analyzerVars, reportVars, wireVars, clientVars, healVars>>

\* generateComprehensiveOnboarding returns to the handler of request r, which
\* goes on to the progress steps
Report(r) ==
  /\ runs[r] = "analysing"
  /\ runs' = [runs EXCEPT ![r] = "reporting"]
  /\ UNCHANGED <<pipelineVars, analyzerVars, reportVars, wireVars, clientVars, healVars>>

\* the handler of request r sends its terminal event and closes the stream
End(r) ==
  /\ runs[r] = "reporting"
  /\ runs' = [runs EXCEPT ![r] = "done"]
  /\ UNCHANGED <<pipelineVars, analyzerVars, reportVars, wireVars, clientVars, healVars>>

InitUsers ==
  /\ Init
  /\ request = [session |-> TRUE, bodyParses |-> TRUE, owner |-> "acme", repo |-> "app"]

NextUsers ==
  \/ \E r \in 1..MaxRequests : Arrive(r)
  \/ \E r \in 1..MaxRequests : Report(r)
  \/ \E r \in 1..MaxRequests : End(r)

SpecUsers == InitUsers /\ [][NextUsers]_vars

(* ---------------- the onboarding page reads the stream ----------------- *)
\* the event streams the route writes: the two opening progress events, then the
\* four checkpoints and the complete event, or the error event
OnboardingStreams ==
  {<<"progress", "progress", "message", "message", "message", "message", "complete">>,
   <<"progress", "progress", "error">>}

\* JSON.stringify of an event, by its type: an object text of three characters
EventCode(type) ==
  CASE type = "progress" -> "p" [] type = "message" -> "m"
    [] type = "complete" -> "c" [] type = "error" -> "e"
stringify(type) == <<"{", EventCode(type), "}">>

\* JSON.parse: the type of the event the text is the object text of, or a
\* SyntaxError for any other text (a part of an object text, the empty text)
parse(text) ==
  IF \E t \in {"progress", "message", "complete", "error"} : text = stringify(t)
  THEN CHOOSE t \in {"progress", "message", "complete", "error"} : text = stringify(t)
  ELSE "SyntaxError"

\* sendSSE: the frame text of an event
sseFrame(payload) == <<"d","a","t","a",":"," ">> \o payload \o <<"\n", "\n">>

startsWith(line, prefix) ==
  Len(line) >= Len(prefix) /\ SubSeq(line, 1, Len(prefix)) = prefix

\* the body of the for loop of startOnboarding for one line of a chunk: the type
\* dispatched on, "parse-failure" when JSON.parse throws, "" for a line skipped
handleLine(line) ==
  IF startsWith(line, <<"d","a","t","a",":"," ">>)
  THEN LET data == parse(SubSeq(line, 7, Len(line)))
       IN  IF data = "SyntaxError" THEN "parse-failure" ELSE data
  ELSE ""

\* chunk.split('\n') and the for loop over its lines
handleChunk(chunk) ==
  LET lines == splitLines(chunk)
  IN  SelectSeq([k \in 1..Len(lines) |-> handleLine(lines[k])], LAMBDA h : h # "")

\* startOnboarding is called: the request is sent
StartOnboarding ==
  /\ ~isAnalyzing /\ ~readerDone
  /\ isAnalyzing' = TRUE
  /\ UNCHANGED <<terminalLines, resultsSet, wireVars>>
  /\ UNCHANGED <<pipelineVars, analyzerVars, reportVars, userVars, healVars>>

\* the route sends its next event: one frame is written to the body
WriteFrame ==
  /\ isAnalyzing /\ ~writerClosed
  /\ \E stream \in OnboardingStreams :
       /\ Len(written) < Len(stream)
       /\ SubSeq(stream, 1, Len(written)) = written
       /\ written' = Append(written, stream[Len(written) + 1])
       /\ wire' = wire \o sseFrame(stringify(stream[Len(written) + 1]))
  /\ UNCHANGED <<writerClosed, readerDone, clientVars>>
  /\ UNCHANGED <<pipelineVars, analyzerVars, reportVars, userVars, healVars>>

\* the route closes the controller after its terminal event
CloseBody ==
  /\ written \in OnboardingStreams
  /\ ~writerClosed
  /\ writerClosed' = TRUE
  /\ UNCHANGED <<written, wire, readerDone, clientVars>>
  /\ UNCHANGED <<pipelineVars, analyzerVars, reportVars, userVars, healVars>>

\* reader.read() returns a chunk, any non-empty prefix of the bytes in transit,
\* and the loop body handles its lines
ReadChunk ==
  /\ isAnalyzing /\ ~readerDone
  /\ \E n \in 1..Len(wire) :
       LET handled == handleChunk(SubSeq(wire, 1, n))
       IN  /\ terminalLines' = terminalLines \o handled
           /\ resultsSet' =
                resultsSet + Cardinality({k \in 1..Len(handled) : handled[k] = "complete"})
           /\ wire' = SubSeq(wire, n + 1, Len(wire))
  /\ UNCHANGED <<written, writerClosed, readerDone, isAnalyzing>>
  /\ UNCHANGED <<pipelineVars, analyzerVars, reportVars, userVars, healVars>>

\* reader.read() returns done: the loop is left and finally clears the flag
ReadDone ==
  /\ isAnalyzing /\ ~readerDone
  /\ wire = <<>> /\ writerClosed
  /\ readerDone' = TRUE
  /\ isAnalyzing' = FALSE
  /\ UNCHANGED <<written, wire, writerClosed, terminalLines, resultsSet>>
  /\ UNCHANGED <<pipelineVars, analyzerVars, reportVars, userVars, healVars>>

InitReader ==
  /\ Init
  /\ request = [session |-> TRUE, bodyParses |-> TRUE, owner |-> "acme", repo |-> "app"]

NextReader ==
  \/ StartOnboarding
  \/ WriteFrame
  \/ CloseBody
  \/ ReadChunk
  \/ ReadDone

SpecReader == InitReader /\ [][NextReader]_vars

(* ---------------- DiagramFixPage reads the healing stream -------------- *)
\* most progress frames of one healing stream
MaxHealProgress == 1

\* the frame streams of the heal-diagram route: a progress frame per text message
\* of the AI query, then the complete frame and the [DONE] frame, or, when the
\* query raised, the error frame
HealStreams ==
  UNION {{[k \in 1..n |-> "progress"] \o <<"complete", "done">>,
          [k \in 1..n |-> "progress"] \o <<"error">>} : n \in 0..MaxHealProgress}

DoneText == <<"[","D","O","N","E","]">>
healPayload(type) == IF type = "done" THEN DoneText ELSE stringify(type)

\* the for loop of healDiagram over the lines of one chunk, on the page state s:
\* [DONE] clears the flag and leaves the loop; a complete message shows the
\* comparison and clears the flag; the Error thrown for an error message is caught
\* by the catch around JSON.parse, like a SyntaxError
RECURSIVE healLines(_, _)
healLines(lines, s) ==
  IF lines = <<>> THEN s
  ELSE
    LET line == Head(lines)
        data == SubSeq(line, 7, Len(line))
    IN  IF ~startsWith(line, <<"d","a","t","a",":"," ">>) THEN healLines(Tail(lines), s)
        ELSE IF data = DoneText THEN [s EXCEPT !.isHealing = FALSE]
        ELSE IF parse(data) = "complete"
        THEN healLines(Tail(lines), [isHealing |-> FALSE, showComparison |-> TRUE])
        ELSE healLines(Tail(lines), s)

\* healDiagram is called: the flag is set and the request is sent
HealDiagram ==
  /\ ~isHealing /\ ~readerDone
  /\ isHealing' = TRUE
  /\ healError' = ""
  /\ showComparison' = FALSE
  /\ UNCHANGED wireVars
  /\ UNCHANGED <<pipelineVars, analyzerVars, reportVars, userVars, clientVars>>

\* the route answers 400 or 500 with a JSON error: healDiagram throws it, and its
\* catch shows the error and clears the flag
HealRejected ==
  /\ isHealing /\ ~readerDone
  /\ written = <<>>
  /\ \E e \in {"Diagram code is required", "Internal server error"} : healError' = e
  /\ isHealing' = FALSE
  /\ readerDone' = TRUE
  /\ UNCHANGED <<written, wire, writerClosed, showComparison>>
  /\ UNCHANGED <<pipelineVars, analyzerVars, reportVars, userVars, clientVars>>

\* the route writes its next frame
HealWrite ==
  /\ isHealing \/ written # <<>>
  /\ ~writerClosed /\ ~readerDone
  /\ \E stream \in HealStreams :
       /\ Len(written) < Len(stream)
       /\ SubSeq(stream, 1, Len(written)) = written
       /\ written' = Append(written, stream[Len(written) + 1])
       /\ wire' = wire \o sseFrame(healPayload(stream[Len(written) + 1]))
  /\ UNCHANGED <<writerClosed, readerDone, healVars>>
  /\ UNCHANGED <<pipelineVars, analyzerVars, reportVars, userVars, clientVars>>

\* finally: writer.close()
HealClose ==
  /\ written \in HealStreams
  /\ ~writerClosed
  /\ writerClosed' = TRUE
  /\ UNCHANGED <<written, wire, readerDone, healVars>>
  /\ UNCHANGED <<pipelineVars, analyzerVars, reportVars, userVars, clientVars>>

\* reader.read() returns a chunk and the loop body handles its lines
HealRead ==
  /\ ~readerDone
  /\ \E n \in 1..Len(wire) :
       LET s == healLines(splitLines(SubSeq(wire, 1, n)),
                          [isHealing |-> isHealing, showComparison |-> showComparison])
       IN  /\ isHealing' = s.isHealing
           /\ showComparison' = s.showComparison
           /\ wire' = SubSeq(wire, n + 1, Len(wire))
  /\ UNCHANGED <<written, writerClosed, readerDone, healError>>
  /\ UNCHANGED <<pipelineVars, analyzerVars, reportVars, userVars, clientVars>>

\* reader.read() returns done: the while loop is left and healDiagram returns
HealReadDone ==
  /\ ~readerDone
  /\ wire = <<>> /\ writerClosed
  /\ readerDone' = TRUE
  /\ UNCHANGED <<written, wire, writerClosed, healVars>>
  /\ UNCHANGED <<pipelineVars, analyzerVars, reportVars, userVars, clientVars>>

InitHeal ==
  /\ Init
  /\ request = [session |-> TRUE, bodyParses |-> TRUE, owner |-> "acme", repo |-> "app"]

NextHeal ==
  \/ HealDiagram
  \/ HealRejected
  \/ HealWrite
  \/ HealClose
  \/ HealRead
  \/ HealReadDone

SpecHeal == InitHeal /\ [][NextHeal]_vars

(* ------------------------------ properties ----------------------------- *)
IsProgress(e) == e.type = "progress" \/ (e.type = "message" /\ e.data.type = "progress")
IsTerminal(e) == e.type \in {"complete", "error"}
Terminals == {i \in 1..Len(events) : IsTerminal(events[i])}
Completes == {i \in 1..Len(events) : events[i].type = "complete"}
\* the caller has not disconnected: no abort was observed, the body was not cancelled
NoDisconnect == ~aborted /\ controller # "cancelled"
RunEnded == response = "stream" /\ pc = "done"
AIFailed == aiOutcome \in {"threw-first", "threw-later"}
MandatoryCalls == RepoDetailsCalls \cup {TreeCall}

\* C1: at most one terminal event (complete or error) is ever on the stream, it is
\* the last event and a progress event precedes it; a run that has ended without
\* a disconnect of the caller has emitted exactly one terminal event.
C1_OneTerminalEvent ==
  /\ Cardinality(Terminals) <= 1
  /\ \A i \in Terminals :
       i = Len(events) /\ \E j \in 1..(i - 1) : IsProgress(events[j])
  /\ (RunEnded /\ NoDisconnect) => Cardinality(Terminals) = 1

\* a run without disconnect has ended on its complete event after six progress events
C1_Witness ==
  /\ RunEnded /\ NoDisconnect
  /\ Len(events) = 7
  /\ events[7].type = "complete"
  /\ \A j \in 1..6 : IsProgress(events[j])

\* C2: in a run in which a repository-metadata request has failed, no complete
\* event is emitted, and the run ends on exactly one error event.
C2_MetadataFailureOnlyError ==
  metaFailed =>
    /\ Completes = {}
    /\ (RunEnded /\ NoDisconnect) =>
         Terminals = {Len(events)} /\ events[Len(events)].type = "error"

\* C3: once the analysis timeout has run out, the AI query is no longer awaited
\* (it was cancelled and the fallback analysis returned).
C3_TimeoutCancelsQuery == ~(pc = "ai" /\ deadlinePassed)

\* C4: in a run whose repository data was gathered, no error event is emitted, and
\* the run ends on a complete event, however the AI query ended.
C4_AIFailureNeverErrors ==
  gathered =>
    /\ \A i \in Terminals : events[i].type = "complete"
    /\ (RunEnded /\ NoDisconnect) => Completes # {}

\* the AI query raised after a message and the run ended on a complete event
C4_Witness ==
  /\ aiOutcome = "threw-later"
  /\ RunEnded /\ NoDisconnect
  /\ Completes = {Len(events)}

\* C5: a successful report built after the AI query raised is not labelled
\* claude_enhanced_analysis.
C5_FallbackLabelled ==
  (AIFailed /\ result.success) => result.analysisType # "claude_enhanced_analysis"

\* C6: every complete event carries a non-empty recommendations list.
C6_RecommendationsNonEmpty ==
  \A i \in Completes : Len(events[i].data.recommendations) > 0

\* a complete event was emitted for the report of a run whose AI query raised
C6_Witness == AIFailed /\ Completes # {}

\* C7: once the disconnect was observed (the abort listener ran, or an enqueue
\* failed and set isStreamClosed) no step enqueues an event.
C7_NoEventAfterDisconnect ==
  [][(aborted \/ isStreamClosed) => events' = events]_vars

\* the caller aborted during the gather, the service still returned a successful
\* report, and the run ended with only the two opening events on the stream
C7_Witness ==
  /\ aborted /\ RunEnded
  /\ result.success
  /\ Len(events) = 2

C9_FailedFetchOmitted ==
  \A k \in 1..Len(keyFiles) : keyFiles[k].path \notin fetchFailed

surfacedError(cause) ==
  LET rejected == getComprehensiveRepoAnalytics({"repos.get"}, NoMeta)
  IN  ErrorEvent(failedResult(rejected.err).error).message

\* C11: the error event of a run whose metadata request was rejected for one cause
\* differs from the error event a rejection for any other cause produces.
C11_CausePreserved ==
  \A i \in 1..Len(events) :
    (events[i].type = "error" /\ metaCause # "none") =>
      \A c \in RejectionCauses \ {metaCause} : events[i].message # surfacedError(c)

\* the end-of-stream frame the other streaming routes of the repository write
DoneSentinel == [type |-> "[DONE]", message |-> "", data |-> NoData, progress |-> 0]

\* C12: a run that has ended without disconnect has written a [DONE] frame after
\* its terminal event.
C12_DoneSentinelWritten ==
  (RunEnded /\ NoDisconnect) =>
    \E i \in 1..Len(events) : events[i] = DoneSentinel /\ \A j \in Terminals : j < i

\* C13: every complete event carries the analysis mode of the report it delivers.
C13_ResultCarriesAnalysisMode ==
  \A i \in Completes :
    /\ "analysisType" \in DOMAIN events[i].data
    /\ events[i].data.analysisType = result.analysisType

\* C14: once the abort listener has run, no step starts a hosting-API request or an
\* AI query, and a pending AI query does not go on yielding messages.
C14_CancellationPropagated ==
  [][aborted => /\ apiCalls' = apiCalls
                /\ aiCalls' = aiCalls
                /\ (pc = "ai" => pc' # "ai")]_vars

C16_SnapshotBuiltOnce == gatherCalls <= 1

\* the container descriptors of the allow-list, the UI and the server frameworks
\* analyzeProjectStructure can report
ContainerDescriptors == {<<"d","o","c","k","e","r","f","i","l","e">>, <<"D","o","c","k","e","r","f","i","l","e">>, <<"d","o","c","k","e","r","-","c","o","m","p","o","s","e",".","y","m","l">>}
UIFrameworks == {"React", "Vue.js", "Angular", "Next.js"}
ServerFrameworks == {"Express.js", "Fastify", "Django", "Flask", "FastAPI"}

\* C17: the architecture label is "Containerized" when the key files hold a
\* container descriptor of the allow-list, else "Single Page Application" for a UI
\* framework, else "API Server" for a server framework, else "Unknown".
C17_ArchitectureFirstMatch ==
  structure # NoStructure =>
    structure.architecture =
      IF \E i \in 1..Len(analyses) : analyses[i].filename \in ContainerDescriptors
      THEN "Containerized"
      ELSE IF structure.framework \in UIFrameworks THEN "Single Page Application"
      ELSE IF structure.framework \in ServerFrameworks THEN "API Server"
      ELSE "Unknown"

\* C18: the structure built from the one analysis of a valid package.json that
\* declares react and a dev and a build script reports React and holds both
\* scripts with their commands.
C18_ManifestRoundTrip ==
  ( /\ structure # NoStructure
    /\ Len(analyses) = 1
    /\ analyses[1].filename = <<"p","a","c","k","a","g","e",".","j","s","o","n">>
    /\ inputs[1].json.kind = "object"
    /\ has(inputs[1].json.dependencies, "react")
    /\ command(inputs[1].json, "dev") # <<>>
    /\ command(inputs[1].json, "build") # <<>> ) =>
      /\ structure.framework = "React"
      /\ \A n \in {"dev", "build"} :
           \E j \in 1..Len(structure.scripts) :
              structure.scripts[j] = [name |-> n, command |-> command(inputs[1].json, n)]

FileTypes ==
  {"documentation", "dependencies", "containerization", "configuration", "testing",
   "project_info", "database_schema", "code"}
AnalysisTypes == {"config", "documentation", "code", "test", "build"}
\* both classifiers have returned a value of their result type for every input
Classifies ==
  /\ \A i \in 1..Len(classified) :
       /\ classified[i].type \in FileTypes
       /\ DOMAIN classified[i].insights = 1..Len(classified[i].insights)
  /\ \A i \in 1..Len(analyses) :
       /\ analyses[i].type \in AnalysisTypes
       /\ DOMAIN analyses[i].insights = 1..Len(analyses[i].insights)
\* the package.json entries built from a text JSON.parse rejects
MalformedClassified ==
  {i \in 1..Len(classified) :
     classified[i].path = <<"p","a","c","k","a","g","e",".","j","s","o","n">> /\ classified[i].input.json.kind = "SyntaxError"}
MalformedAnalysed ==
  {i \in 1..Len(analyses) :
     analyses[i].filename = <<"p","a","c","k","a","g","e",".","j","s","o","n">> /\ inputs[i].json.kind = "SyntaxError"}

ListedPaths == {TreePaths[i] : i \in {k \in 1..Len(TreePaths) : isKeyFile(TreePaths[k])}}
\* the items of the tree, up to index n, whose path contains a listed name
ListedUpTo(n) ==
  {j \in 1..Len(tree) : j <= n /\ tree[j].path \in ListedPaths}

\* C22: getKeyFiles requests content only for tree items whose path contains a
\* listed name, at most once per item (the entries pushed, plus the request under
\* way, are as many as the listed items passed so far, in tree order), and every
\* item of the tree, listed or not, has its entry in codeStructure
C22_OnlyListedFetchedOnce ==
  /\ pc \in {"content", "content_settled"} =>
       /\ tree[treeIdx].path \in ListedPaths
       /\ \A k \in 1..Len(keyFiles) : keyFiles[k].path \in ListedPaths
       /\ Len(keyFiles) + 1 = Cardinality(ListedUpTo(treeIdx))
  /\ pc = "gathered" =>
       /\ \A k \in 1..Len(keyFiles) : keyFiles[k].path \in ListedPaths
       /\ Len(keyFiles) = Cardinality(ListedUpTo(Len(tree)))
       /\ \A a, b \in 1..Len(keyFiles) : a < b => keyFiles[a].path # keyFiles[b].path
       /\ Len(RepoData.codeStructure) = Len(tree)
       /\ \A j \in 1..Len(tree) : RepoData.codeStructure[j].path = tree[j].path

\* a gathered tree with one listed and one unlisted item: one entry, two counted
C22_Witness ==
  /\ pc = "gathered"
  /\ Len(tree) = 2
  /\ Cardinality(ListedUpTo(2)) = 1
  /\ Len(keyFiles) = 1
  /\ Len(RepoData.codeStructure) = 2

\* the setup section of a guide holds the AI setup text / the command template
SetupHeader == Section("## Developer Setup Guide", "")
UsesAISetup(guide) ==
  \E k \in 2..Len(guide) :
     /\ guide[k - 1] = SetupHeader
     /\ guide[k].narrative.len > 0
     /\ guide[k].narrative.ids = claudeAnalysis.setupInstructions.ids
UsesTemplate(guide) ==
  \E k \in 2..Len(guide) :
     /\ guide[k - 1] = SetupHeader
     /\ guide[k] = Section("bash fence", "")
     /\ guide[k + 1] = Section("# Clone the repository", "")

\* C23: the guide generateEnhancedOnboardingGuide builds is never empty and has the
\* setup section; that section holds the AI setup text exactly when the text is
\* longer than 50 characters and the language-keyed template otherwise; after a
\* failed AI call, or an AI call that yielded no message, it holds the template
C23_SetupSectionAlwaysPresent ==
  claudeOutcome # "none" =>
    LET guide == generateEnhancedOnboardingGuide(repoData, claudeAnalysis,
                                                 request.owner, request.repo)
    IN  /\ onboardingGuide \in {<<>>, guide}
        /\ Len(guide) > 0
        /\ \E k \in 1..Len(guide) : guide[k] = SetupHeader
        /\ UsesAISetup(guide) <=> claudeAnalysis.setupInstructions.len > 50
        /\ UsesTemplate(guide) <=> ~(claudeAnalysis.setupInstructions.len > 50)
        /\ (claudeOutcome = "throw" \/ claudeAnalysis = extractClaudeInsights(<<>>))
             => UsesTemplate(guide)

\* a guide built from an AI setup text of 51 characters, one past the threshold
C23_Witness ==
  /\ claudeOutcome = "done"
  /\ claudeAnalysis.setupInstructions.len = 51
  /\ onboardingGuide # <<>>
  /\ UsesAISetup(onboardingGuide)
  /\ ~UsesTemplate(onboardingGuide)

HasLine(lines, text) == \E k \in 1..Len(lines) : lines[k].text = text
CountLines(lines, text) == Cardinality({k \in 1..Len(lines) : lines[k].text = text})

\* C24: after a failed AI call the analysis performClaudeCodeAnalysis returns has
\* empty narrative fields, no feature and no key insight, and neither the
\* recommendations nor the guide built from it hold a section attributed to the AI
C24_FallbackCarriesNoAIContent ==
  claudeOutcome = "throw" =>
    /\ claudeAnalysis.codeAnalysis.len = 0
    /\ claudeAnalysis.dataModel.len = 0
    /\ claudeAnalysis.architecture.len = 0
    /\ claudeAnalysis.setupInstructions.len = 0
    /\ claudeAnalysis.features = <<>>
    /\ claudeAnalysis.keyInsights = <<>>
    /\ ~HasLine(recommendations, "AI-Powered Recommendations:")
    /\ ~HasLine(onboardingGuide, "## Key Developer Insights")

\* the number of lines generateEnhancedRecommendations can push: the AI block, the
\* setup block, the database block, the feature block, the quality block
MaxRecommendationLines ==
  (MaxInsightLines + 2) + 5 + 6 + (MaxFeatureLines + 2) + 5

\* C25: whatever the features and key insights drawn from the AI messages, the
\* array generateEnhancedRecommendations returns has at most
\* MaxRecommendationLines entries, at most MaxInsightLines of them key insights and
\* at most MaxFeatureLines of them features
C25_RecommendationsBounded ==
  claudeOutcome # "none" =>
    LET recs == generateEnhancedRecommendations(repoData, claudeAnalysis)
    IN  /\ recommendations \in {<<>>, recs}
        /\ Len(recs) <= MaxRecommendationLines
        /\ CountLines(recs, "* ") <= MaxInsightLines
        /\ CountLines(recs, "Explore the implementation of ") <= MaxFeatureLines

\* recommendations built from more insights and features than are kept
C25_Witness ==
  /\ Len(claudeAnalysis.keyInsights) > MaxInsightLines
  /\ Len(claudeAnalysis.features) > MaxFeatureLines
  /\ recommendations # <<>>
  /\ CountLines(recommendations, "* ") = MaxInsightLines
  /\ CountLines(recommendations, "Explore the implementation of ") = MaxFeatureLines

\* positions of the events that carry a percent value / that end the stream
PercentEvents == {i \in 1..Len(events) : events[i].type = "message"}
TerminalEvents == {i \in 1..Len(events) : events[i].type \in {"complete", "error"}}

\* C26: within one run the events that carry a percent value are emitted in
\* strictly increasing percent order, so each checkpoint at most once, and every
\* one of them before the terminal event
C26_PercentStrictlyIncreasing ==
  /\ \A i, j \in PercentEvents : i < j => events[i].progress < events[j].progress
  /\ \A i \in PercentEvents : \A j \in TerminalEvents : i < j

\* a run that emitted the four checkpoints and then its terminal event
C26_Witness ==
  /\ Cardinality(PercentEvents) = 4
  /\ TerminalEvents # {}
  /\ pc = "done"

\* C27: the first progress event is emitted before any remote call, and the event
\* announcing a later stage (a checkpoint of progressSteps) is emitted while the
\* report is still being computed, not once the whole result is already there
C27_StageEventsBeforeStageWork ==
  [][/\ (apiCalls' > apiCalls /\ ~isStreamClosed) =>
          (events # <<>> /\ events[1] = ProgressEvent("Starting repository analysis..."))
     /\ (Len(events') > Len(events) /\ events'[Len(events')].type = "message") =>
          result = NoResult]_vars

\* C28: under every interleaving of a run with a caller abort, a cancelled body or
\* a failed enqueue, the controller is closed once (having left the open state it
\* never changes again, so the abort listener and the finally block do not both
\* close it) and a run that has ended has not left it open
C28_ClosedExactlyOnce ==
  [][/\ controller \in {"closed", "cancelled"} => controller' = controller
     /\ (pc' = "done" /\ response' = "stream") => controller' \in {"closed", "cancelled"}
    ]_vars

\* the caller aborted after the finally block had closed the controller: the
\* listener's close() was the second call, and the controller stays closed
C28_Witness ==
  /\ pc = "done"
  /\ aborted
  /\ controller = "closed"
  /\ Len(events) = 7
  /\ events[7].type = "complete"

\* C21: at most ConcurrentAnalyses onboarding analyses of one user are in progress
\* at the same time
C21_AtMostFiveConcurrent == Cardinality(Running) <= ConcurrentAnalyses

\* C29: once the stream has been read to its end, the page has handled every
\* frame the route wrote exactly once and in order, and set the result once for
\* the complete frame, however the bytes were split into chunks
C29_EveryFrameHandledOnce ==
  readerDone =>
    /\ terminalLines = written
    /\ resultsSet = Cardinality({k \in 1..Len(written) : written[k] = "complete"})

\* C30: once the healing stream has ended, DiagramFixPage has left the loading
\* state, and it shows the error if the stream delivered an error event or ended
\* without a complete event
C30_HealingEndsLoading ==
  readerDone =>
    /\ ~isHealing
    /\ (\A k \in 1..Len(written) : written[k] # "complete") => healError # ""

====
